---------------------------- MODULE Spec2Model ----------------------------
(***************************************************************************)
(* A model of the rl_sdn_routing repository: the forwarding controller     *)
(* (src/src/ryu_controller.py), the path-selection agent                   *)
(* (src/src/rl_agent.py) and the topology descriptor written by the        *)
(* provisioner (src/src/mininet_topology.py).                              *)
(*                                                                         *)
(* Encodings.  A switch or host name f's{i}' / f'h{i}' is the pair         *)
(* <<"s", i>> / <<"h", i>>.  The IP of host i, '10.0.0.{i}', is the        *)
(* string IpOf(i); its MAC is the number i.  OpenFlow's reserved ports are *)
(* 32-bit unsigned numbers; they are written here as the same 32 bits read *)
(* as a signed number (0xfffffffb = -5, 0xfffffffd = -3).  A rational      *)
(* number is a pair <<numerator, denominator>>.                            *)
(***************************************************************************)
EXTENDS Integers, Sequences, FiniteSets, TLC

(***************************************************************************)
(* Bounds of the model.                                                    *)
(***************************************************************************)
\* handler invocations of the controller in one behaviour
MaxEvents == 4
\* side length of the grid topology the provisioner may have been run with
GridSize == 2

(***************************************************************************)
(* Generic helpers.                                                        *)
(***************************************************************************)
Range(f) == {f[x] : x \in DOMAIN f}

Max2(a, b) == IF a >= b THEN a ELSE b

\* "x in seq" for a Python list
InSeq(x, s) == \E i \in 1..Len(s) : s[i] = x

\* list with every occurrence of x removed (dict key deletion keeps the order of the rest)
RECURSIVE SeqWithout(_, _)
SeqWithout(s, x) ==
    IF s = <<>> THEN <<>>
    ELSE (IF Head(s) = x THEN <<>> ELSE <<Head(s)>>) \o SeqWithout(Tail(s), x)

IsPrefix(s, t) == Len(s) <= Len(t) /\ \A i \in 1..Len(s) : s[i] = t[i]

(***************************************************************************)
(* The topology descriptor, data/config/topology_info.json.                *)
(***************************************************************************)
SName(i) == <<"s", i>>
HName(i) == <<"h", i>>

IpTable == <<"10.0.0.1", "10.0.0.2", "10.0.0.3", "10.0.0.4">>
IpOf(i) == IpTable[i]

\* LinearTopo.generate_topology_info, "for i in range(len(hosts))"
RECURSIVE LinearHosts(_, _)
LinearHosts(i, st) ==
    IF i >= 4 THEN st
    ELSE LinearHosts(i + 1,
            [st EXCEPT !.ports[SName(i + 1)] = (HName(i + 1) :> 1) @@ @,
                       !.links = Append(@, [src |-> HName(i + 1), dst |-> SName(i + 1), port |-> 1])])

\* a numbering that gives every switch-switch link port 2 at both ends
RECURSIVE LinearSwitches_fixedPort(_, _)
LinearSwitches_fixedPort(i, st) ==
    IF i >= 4 - 1 THEN st
    ELSE LinearSwitches_fixedPort(i + 1,
            [st EXCEPT !.ports = [@ EXCEPT ![SName(i + 1)] = (SName(i + 2) :> 2) @@ @,
                                           ![SName(i + 2)] = (SName(i + 1) :> 2) @@ @],
                       !.links = Append(@, [src |-> SName(i + 1), dst |-> SName(i + 2),
                                            port |-> 2 + i])])

\* LinearTopo.generate_topology_info, "for i in range(len(switches)-1)"
RECURSIVE LinearSwitches(_, _)
LinearSwitches(i, st) ==
    IF i >= 4 - 1 THEN st
    ELSE LET src_switch == SName(i + 1)
             dst_switch == SName(i + 2)
         IN LinearSwitches(i + 1,
                [st EXCEPT !.ports = [@ EXCEPT ![src_switch] = (dst_switch :> 2 + i) @@ @,
                                               ![dst_switch] = (src_switch :> 2) @@ @],
                           !.links = Append(@, [src |-> src_switch, dst |-> dst_switch,
                                                port |-> 2 + i])])

LinearBuild ==
    LinearSwitches(0, LinearHosts(0,
        [ports |-> [n \in {SName(i) : i \in 1..4} |-> <<>>], links |-> <<>>]))

LinearDescriptor ==
    [switches |-> [n \in {SName(i) : i \in 1..4} |->
                     [dpid |-> n[2], ports |-> LinearBuild.ports[n]]],
     hosts    |-> [n \in {HName(i) : i \in 1..4} |->
                     [ip |-> IpOf(n[2]), mac |-> n[2], connected_to |-> SName(n[2])]],
     links    |-> LinearBuild.links]

\* hosts on the first switches instead of the corners
GridCorner_firstFour(size) == [h \in 1..4 |-> 1 + ((h - 1) % (size * size))]

\* GridTopo.generate_topology_info: the corner hosts
GridCorner(size) ==
    [h \in 1..4 |-> CASE h = 1 -> 1
                      [] h = 2 -> size
                      [] h = 3 -> size * (size - 1) + 1
                      [] h = 4 -> size * size]

\* one pass of "for host, switch in corner_switches.items()"
RECURSIVE GridHosts(_, _, _)
GridHosts(size, h, st) ==
    IF h > 4 THEN st
    ELSE LET sw == SName(GridCorner(size)[h])
             p  == st.port_counters[sw]
         IN GridHosts(size, h + 1,
                [st EXCEPT !.connected_to[HName(h)] = sw,
                           !.ports[sw] = (HName(h) :> p) @@ @,
                           !.links = Append(@, [src |-> HName(h), dst |-> sw, port |-> p]),
                           !.port_counters[sw] = @ + 1])

\* one "if j < size-1" / "if i < size-1" block: a link current -> next
GridLink(st, cur, nxt) ==
    [st EXCEPT !.ports = [@ EXCEPT ![cur] = (nxt :> st.port_counters[cur]) @@ @,
                                   ![nxt] = (cur :> st.port_counters[nxt]) @@ @],
               !.links = Append(@, [src |-> cur, dst |-> nxt, port |-> st.port_counters[cur]]),
               !.port_counters = [@ EXCEPT ![cur] = @ + 1, ![nxt] = @ + 1]]

\* the double loop over i, j, flattened to k = i*size + j
RECURSIVE GridCells(_, _, _)
GridCells(size, k, st) ==
    IF k >= size * size THEN st
    ELSE LET i   == k \div size
             j   == k % size
             cur == SName(i * size + j + 1)
             link(s, nxt) == GridLink(s, cur, nxt)
             s1  == IF j < size - 1 THEN link(st, SName(i * size + j + 2)) ELSE st
             s2  == IF i < size - 1 THEN link(s1, SName((i + 1) * size + j + 1)) ELSE s1
         IN GridCells(size, k + 1, s2)

GridBuild(size) ==
    LET names == {SName(i) : i \in 1..(size * size)}
        st0 == [connected_to  |-> [h \in {HName(i) : i \in 1..4} |-> <<"", 0>>],
                ports         |-> [n \in names |-> <<>>],
                links         |-> <<>>,
                port_counters |-> [n \in names |-> 1]]
    IN GridCells(size, 0, GridHosts(size, 1, st0))

GridDescriptor(size) ==
    LET b == GridBuild(size)
    IN [switches |-> [n \in {SName(i) : i \in 1..(size * size)} |->
                        [dpid |-> n[2], ports |-> b.ports[n]]],
        hosts    |-> [n \in {HName(i) : i \in 1..4} |->
                        [ip |-> IpOf(n[2]), mac |-> n[2], connected_to |-> b.connected_to[n]]],
        links    |-> b.links]

\* self.addLink(node1, node2, port1=..., port2=...): the link as Mininet creates it
AddLink(node1, node2, port1, port2) ==
    [node1 |-> node1, node2 |-> node2, port1 |-> port1, port2 |-> port2]

\* LinearTopo.build: the host-switch links, then "for i in range(len(switches)-1)"
LinearTopo_build ==
    [h \in 1..4 |-> AddLink(HName(h), SName(h), 0, 1)]
    \o [k \in 1..(4 - 1) |-> AddLink(SName(k), SName(k + 1), 2 + (k - 1), 2)]

\* GridTopo.build, corner_switches: the switch object switches[i][j] is the switch of
\* dpid i*size + j + 1; the name is the key of its port counter
GridTopo_corners(size) ==
    <<[switch |-> SName(0 * size + 0 + 1), switch_name |-> SName(1)],
      [switch |-> SName(0 * size + (size - 1) + 1), switch_name |-> SName(size)],
      [switch |-> SName((size - 1) * size + 0 + 1), switch_name |-> SName(size * (size - 1) + 1)],
      [switch |-> SName((size - 1) * size + (size - 1) + 1), switch_name |-> SName(size * size)]>>

\* GridTopo.build, "for host, switch, switch_name in corner_switches"
RECURSIVE GridTopo_hosts(_, _, _)
GridTopo_hosts(size, h, st) ==
    IF h > 4 THEN st
    ELSE GridTopo_hosts(size, h + 1,
            [st EXCEPT !.links = Append(@, AddLink(HName(h), GridTopo_corners(size)[h].switch, 0,
                                                   st.port_counters[GridTopo_corners(size)[h].switch_name])),
                       !.port_counters[GridTopo_corners(size)[h].switch_name] = @ + 1])

\* a grid link whose far end is given the near end's counter
GridTopo_link_nearPort(st, cur, cur_name, nxt, nxt_name) ==
    [st EXCEPT !.links = Append(@, AddLink(cur, nxt, st.port_counters[cur_name],
                                           st.port_counters[cur_name])),
               !.port_counters = [@ EXCEPT ![cur_name] = @ + 1, ![nxt_name] = @ + 1]]

\* GridTopo.build, one "if j < size-1" / "if i < size-1" block
GridTopo_link(st, cur, cur_name, nxt, nxt_name) ==
    [st EXCEPT !.links = Append(@, AddLink(cur, nxt, st.port_counters[cur_name],
                                           st.port_counters[nxt_name])),
               !.port_counters = [@ EXCEPT ![cur_name] = @ + 1, ![nxt_name] = @ + 1]]

\* GridTopo.build, the double loop over i, j, flattened to k = i*size + j
RECURSIVE GridTopo_cells(_, _, _)
GridTopo_cells(size, k, st) ==
    IF k >= size * size THEN st
    ELSE LET i   == k \div size
             j   == k % size
             cur == SName(i * size + j + 1)
             s1  == IF j < size - 1
                    THEN GridTopo_link(st, cur, cur, SName(i * size + (j + 1) + 1),
                                       SName(i * size + j + 2))
                    ELSE st
             s2  == IF i < size - 1
                    THEN GridTopo_link(s1, cur, cur, SName((i + 1) * size + j + 1),
                                       SName((i + 1) * size + j + 1))
                    ELSE s1
         IN GridTopo_cells(size, k + 1, s2)

\* GridTopo.build: the links of the virtual network, in the order of creation
GridTopo_build(size) ==
    GridTopo_cells(size, 0,
        GridTopo_hosts(size, 1,
            [links |-> <<>>,
             port_counters |-> [n \in {SName(i) : i \in 1..(size * size)} |-> 1]])).links

\* the links of the network a run with these arguments emulates
TopoLinks(type, size) ==
    IF type = "linear" THEN LinearTopo_build
    ELSE IF type = "grid" THEN GridTopo_build(size)
    ELSE <<>>

\* the file's content by the topology the provisioner was run with
TheGridDescriptor == GridDescriptor(GridSize)

DescriptorOf(topo) ==
    IF topo = "linear" THEN LinearDescriptor ELSE TheGridDescriptor

Topologies == {"linear", "grid"}

(***************************************************************************)
(* The live topology graph, a networkx Graph: adj keeps each node's        *)
(* neighbours in insertion order (the order "for neighbor in graph[dpid]"  *)
(* visits them), port the single 'port' attribute of each undirected edge. *)
(***************************************************************************)
EmptyGraph == [adj |-> <<>>, port |-> <<>>]

Nodes(g) == DOMAIN g.adj

Edges(g) == DOMAIN g.port

HasEdge(g, u, v) == {u, v} \in Edges(g)

add_node(g, n) ==
    IF n \in Nodes(g) THEN g ELSE [g EXCEPT !.adj = (n :> <<>>) @@ @]

\* add_edge of a multigraph: every call adds one more edge between u and v
add_edge_multi(g, u, v, p) ==
    [adj  |-> [[n \in Nodes(g) \cup {u, v} |-> IF n \in Nodes(g) THEN g.adj[n] ELSE <<>>]
                  EXCEPT ![u] = Append(@, v), ![v] = Append(@, u)],
     port |-> ({u, v} :> p) @@ g.port]

add_edge(g, u, v, p) ==
    LET with(h, n) == add_node(h, n)
        g1 == with(with(g, u), v)
    IN [adj  |-> [g1.adj EXCEPT ![u] = IF InSeq(v, @) THEN @ ELSE Append(@, v),
                                ![v] = IF InSeq(u, @) THEN @ ELSE Append(@, u)],
        port |-> ({u, v} :> p) @@ g1.port]

remove_edge(g, u, v) ==
    [adj  |-> [g.adj EXCEPT ![u] = SeqWithout(@, v), ![v] = SeqWithout(@, u)],
     port |-> [e \in Edges(g) \ {{u, v}} |-> g.port[e]]]

Neighbours(g, n) == Range(g.adj[n])

\* breadth-first search: the hop distance from the frontier's source to t, -1 if unreachable
RECURSIVE BFS(_, _, _, _, _)
BFS(g, visited, frontier, t, d) ==
    IF t \in frontier THEN d
    ELSE IF frontier = {} THEN -1
    ELSE BFS(g, visited \cup frontier,
             (UNION {Neighbours(g, n) : n \in frontier}) \ (visited \cup frontier), t, d + 1)

Distance(g, s, t) == BFS(g, {}, {s}, t, 0)

\* every path of d hops from s to t, d the hop distance
RECURSIVE PathsOfLength(_, _, _, _)
PathsOfLength(g, s, t, d) ==
    IF d = 0 THEN {<<s>>}
    ELSE UNION {{Append(p, t) : p \in PathsOfLength(g, s, u, d - 1)} :
                u \in {u \in Neighbours(g, t) : Distance(g, s, u) = d - 1}}

ShortestPaths(g, s, t) ==
    LET d == Distance(g, s, t)
    IN IF d < 0 THEN {} ELSE PathsOfLength(g, s, t, d)

\* lexicographic order on paths of equal length
RECURSIVE LexLeq(_, _)
LexLeq(p, q) ==
    IF p = <<>> THEN TRUE
    ELSE IF Head(p) # Head(q) THEN Head(p) < Head(q)
    ELSE LexLeq(Tail(p), Tail(q))

\* which of several equally short paths the search returns is decided by the
\* library's traversal order: either end of the lexicographic order
TieBreaks == {"lo", "hi"}

PickPath(paths, tb) ==
    CHOOSE p \in paths : \A q \in paths :
        LexLeq(IF tb = "lo" THEN p ELSE q, IF tb = "lo" THEN q ELSE p)

\* nx.shortest_path(G, source, target): NodeNotFound, NetworkXNoPath or a path
nx_shortest_path(g, s, t, tb) ==
    LET paths == ShortestPaths(g, s, t)
    IN IF s \notin Nodes(g) \/ t \notin Nodes(g) THEN [exc |-> "NodeNotFound", path |-> <<>>]
       ELSE IF paths = {} THEN [exc |-> "NetworkXNoPath", path |-> <<>>]
       ELSE [exc |-> "none", path |-> PickPath(paths, tb)]

\* switch_features_handler, "for link in topology_info['links']"; the graph is
\* bound to its value at every iteration (h), as the loop mutates it in place
RECURSIVE LoadLinks(_, _, _)
LoadLinks(g, topology_info, i) ==
    IF i > Len(topology_info.links) THEN g
    ELSE LET link == topology_info.links[i]
         IN CHOOSE r \in {LoadLinks(h, topology_info, i + 1) :
                          h \in {IF link.src[1] = "s" /\ link.dst[1] = "s"
                                 THEN add_edge(g, topology_info.switches[link.src].dpid,
                                               topology_info.switches[link.dst].dpid, link.port)
                                 ELSE g}} : TRUE

\* switch_features_handler, "for switch_name, info in topology_info['switches'].items()"
RECURSIVE LoadNodes(_, _, _)
LoadNodes(g, topology_info, names) ==
    IF names = {} THEN g
    ELSE LET n == CHOOSE n \in names : TRUE
         IN CHOOSE r \in {LoadNodes(h, topology_info, names \ {n}) :
                          h \in {add_node(g, topology_info.switches[n].dpid)}} : TRUE

\* the graph after one replay of the descriptor
LoadTopology(g, topology_info) ==
    LoadLinks(LoadNodes(g, topology_info, DOMAIN topology_info.switches), topology_info, 1)

(***************************************************************************)
(* OpenFlow messages.                                                      *)
(***************************************************************************)
OFPP_FLOOD == -5
OFPP_CONTROLLER == -3
OFPCML_NO_BUFFER == 65535
OFP_NO_BUFFER == -1
ETH_TYPE_ARP == 2054
ETH_TYPE_IP == 2048
OFPCML_MAX == 65509
IPPROTO_TCP == 6

\* parser.OFPMatch(**fields): a field that is not given is absent (0 or "")
OFPMatch(eth_type, ipv4_src, ipv4_dst, ip_proto) ==
    [eth_type |-> eth_type, ipv4_src |-> ipv4_src, ipv4_dst |-> ipv4_dst, ip_proto |-> ip_proto]

\* match.get(field, 'unknown') for the two address fields
MatchGet(match, field) ==
    IF match[field] = "" THEN "unknown" ELSE match[field]

OFPActionOutput(port, max_len) == [port |-> port, max_len |-> max_len]

\* str(match) prints the fields that are set, str(actions) each action's port and max_len
StrMatch(match) ==
    <<"OFPMatch",
      {<<f, match[f]>> : f \in {f \in {"eth_type", "ip_proto"} : match[f] # 0}},
      {<<f, match[f]>> : f \in {f \in {"ipv4_src", "ipv4_dst"} : match[f] # ""}}>>

StrActions(actions) ==
    [i \in 1..Len(actions) |-> <<"OFPActionOutput", actions[i].max_len, actions[i].port>>]

(***************************************************************************)
(* The controller, SimpleSwitch13.  A handler's running state is a record  *)
(* c: the flow log and counter, the dedup set, the messages the handler    *)
(* has sent so far, the path decisions it has taken and the exception, if  *)
(* any, that is propagating out of it.                                     *)
(***************************************************************************)
\* add_flow without its duplicate check
add_flow_unchecked(c, dp, priority, match, actions, idle_timeout, hard_timeout) ==
    [c EXCEPT !.sent = Append(@, [type |-> "flow_mod", dpid |-> dp, priority |-> priority,
                                  match |-> match, actions |-> actions,
                                  idle_timeout |-> idle_timeout,
                                  hard_timeout |-> hard_timeout]),
              !.count = @ + 1,
              !.flows = Append(@, [dpid |-> dp,
                                   src_ip |-> MatchGet(match, "ipv4_src"),
                                   dst_ip |-> MatchGet(match, "ipv4_dst"),
                                   actions |-> StrActions(actions)]),
              !.existing_flows = @ \cup {<<dp, StrMatch(match), StrActions(actions)>>}]

add_flow(c, dp, priority, match, actions, idle_timeout, hard_timeout) ==
    LET mod == [type |-> "flow_mod", dpid |-> dp, priority |-> priority, match |-> match,
                actions |-> actions, idle_timeout |-> idle_timeout,
                hard_timeout |-> hard_timeout]
        flow_key == <<dp, StrMatch(match), StrActions(actions)>>
    IN IF flow_key \in c.existing_flows THEN c
       ELSE [c EXCEPT !.sent = Append(@, mod),
                      !.count = @ + 1,
                      !.flows = Append(@, [dpid |-> dp,
                                           src_ip |-> MatchGet(match, "ipv4_src"),
                                           dst_ip |-> MatchGet(match, "ipv4_dst"),
                                           actions |-> StrActions(actions)]),
                      !.existing_flows = @ \cup {flow_key}]

\* None is 0: the callers only test the result for truth
_get_switch_for_ip(desc, ip) ==
    IF desc = "absent" THEN 0
    ELSE LET topology_info == DescriptorOf(desc)
             found == {h \in DOMAIN topology_info.hosts : topology_info.hosts[h].ip = ip}
         IN IF found = {} THEN 0
            ELSE topology_info.switches[
                     topology_info.hosts[CHOOSE h \in found : TRUE].connected_to].dpid

_get_shortest_path(g, src_switch, dst_switch, tb) ==
    LET r == nx_shortest_path(g, src_switch, dst_switch, tb)
    IN IF r.exc = "NetworkXNoPath" THEN [exc |-> "none", path |-> <<>>] ELSE r

\* the agent as the controller sees it over HTTP: the request raises (no
\* connection, a timeout, an error status, a body that is not JSON: one except
\* clause serves them all), it answers with no path, it answers with a candidate
AgentBehaviours == {"unreachable", "empty_path", "path"}

\* the candidate an answering agent returns: its candidates are fixed by its
\* configuration, so it is a path of the full topology, whatever links have failed
AgentCandidate(desc, src, dst) ==
    LET full == LoadTopology(EmptyGraph, DescriptorOf(desc))
        r == nx_shortest_path(full, src, dst, "hi")
    IN r.path

\* path_info as returned: {} on any exception, else the response's JSON
_request_path_from_rl_agent(desc, src_switch, dst_switch, network_state, rl_agent) ==
    IF rl_agent = "unreachable" THEN [empty |-> TRUE, path |-> <<>>]
    ELSE IF rl_agent = "empty_path" THEN [empty |-> FALSE, path |-> <<>>]
    ELSE [empty |-> FALSE, path |-> AgentCandidate(desc, src_switch, dst_switch)]

\* [flow count, tracked flows, edge density, number of recent rewards]
_get_current_network_state(c, g, rl_agent, rewards) ==
    LET n == Cardinality(Nodes(g))
        rl_stats == IF rl_agent = "unreachable" THEN <<>> ELSE rewards
    IN <<c.count, Len(c.flows),
         <<2 * Cardinality(Edges(g)), Max2(n * (n - 1), 2)>>,
         Len(rl_stats)>>

\* an installation that gives up at the first hop it cannot serve
RECURSIVE InstallHops_abort(_, _, _, _, _, _, _)
InstallHops_abort(c, g, dps, path, src_ip, dst_ip, i) ==
    IF i > Len(path) - 1 THEN c
    ELSE IF path[i] \notin dps \/ path[i] \notin Nodes(g) \/ ~InSeq(path[i + 1], g.adj[path[i]])
    THEN c
    ELSE InstallHops_abort(
            add_flow(c, path[i], 10, OFPMatch(ETH_TYPE_IP, src_ip, dst_ip, IPPROTO_TCP),
                     <<OFPActionOutput(g.port[{path[i], path[i + 1]}], OFPCML_MAX)>>, 120, 300),
            g, dps, path, src_ip, dst_ip, i + 1)

RECURSIVE InstallHops(_, _, _, _, _, _, _)
InstallHops(c, g, dps, path, src_ip, dst_ip, i) ==
    IF i > Len(path) - 1 THEN c
    ELSE LET src_dpid == path[i]
             dst_dpid == path[i + 1]
             c1 == IF src_dpid \notin dps
                   THEN c
                   ELSE IF src_dpid \notin Nodes(g) \/ ~InSeq(dst_dpid, g.adj[src_dpid])
                   THEN c
                   ELSE add_flow(c, src_dpid, 10,
                                 OFPMatch(ETH_TYPE_IP, src_ip, dst_ip, IPPROTO_TCP),
                                 <<OFPActionOutput(g.port[{src_dpid, dst_dpid}], OFPCML_MAX)>>,
                                 120, 300)
         IN InstallHops(c1, g, dps, path, src_ip, dst_ip, i + 1)

_install_path_flows(c, g, dps, path, src_ip, dst_ip) ==
    InstallHops(c, g, dps, path, src_ip, dst_ip, 1)

\* the path selection every site performs: ask the agent, fall back to the
\* shortest path of the live graph, install what results.  sp is the selection's
\* outcome: the path, or the exception the fallback raised
InstallSelected(c, g, dps, site, src_ip, dst_ip, src_switch, dst_switch, network_state, agent_path, sp) ==
    IF sp.exc # "none" \/ sp.path = <<>>
    THEN [c EXCEPT !.exc = sp.exc,
                   !.decisions = Append(@, [site |-> site, src_ip |-> src_ip, dst_ip |-> dst_ip,
                                            src_switch |-> src_switch, dst_switch |-> dst_switch,
                                            network_state |-> network_state,
                                            agent_path |-> agent_path, graph |-> g,
                                            exc |-> sp.exc, path |-> sp.path])]
    ELSE _install_path_flows(
            [c EXCEPT !.decisions = Append(@, [site |-> site, src_ip |-> src_ip, dst_ip |-> dst_ip,
                                            src_switch |-> src_switch, dst_switch |-> dst_switch,
                                            network_state |-> network_state,
                                            agent_path |-> agent_path, graph |-> g,
                                            exc |-> sp.exc, path |-> sp.path])],
            g, dps, sp.path, src_ip, dst_ip)

\* a selection that takes the agent's answer as it is, with no fallback
FallBack_none(c, g, dps, site, src_ip, dst_ip, src_switch, dst_switch, tb, network_state, agent_path) ==
    InstallSelected(c, g, dps, site, src_ip, dst_ip, src_switch, dst_switch, network_state,
                    agent_path, [exc |-> "none", path |-> agent_path])

\* "if not path: path = self._get_shortest_path(src_switch, dst_switch)"
FallBack(c, g, dps, site, src_ip, dst_ip, src_switch, dst_switch, tb, network_state, agent_path) ==
    InstallSelected(c, g, dps, site, src_ip, dst_ip, src_switch, dst_switch, network_state,
                    agent_path,
                    IF agent_path = <<>> THEN _get_shortest_path(g, src_switch, dst_switch, tb)
                    ELSE [exc |-> "none", path |-> agent_path])

\* "path = path_info.get('path', []) if path_info else []"
PathOf(path_info) == IF path_info.empty THEN <<>> ELSE path_info.path

RequestAgent(c, g, dps, desc, site, src_ip, dst_ip, src_switch, dst_switch, rl_agent, tb, network_state) ==
    FallBack(c, g, dps, site, src_ip, dst_ip, src_switch, dst_switch, tb, network_state,
             PathOf(_request_path_from_rl_agent(desc, src_switch, dst_switch, network_state,
                                                rl_agent)))

SelectAndInstall(c, g, dps, desc, site, src_ip, dst_ip, src_switch, dst_switch, rl_agent, tb, rewards) ==
    RequestAgent(c, g, dps, desc, site, src_ip, dst_ip, src_switch, dst_switch, rl_agent, tb,
                 _get_current_network_state(c, g, rl_agent, rewards))

(***************************************************************************)
(* The agent, QLearningAgent, and its HTTP service.                        *)
(*                                                                         *)
(* str(x) of a list of switch ids is the list itself, str(n) of a number   *)
(* is <<0, n>> (no switch has id 0): the two never coincide, as '[3]' and  *)
(* '3' do not.  A JSON field that is missing (or null) has kind "none".    *)
(***************************************************************************)
\* length of the state vectors, rl_config.json's state_size
state_size == 2
\* /update requests served in one behaviour
MaxSteps == 2

RECURSIVE GCD(_, _)
GCD(a, b) == IF b = 0 THEN a ELSE GCD(b, a % b)

Abs(n) == IF n < 0 THEN -n ELSE n

\* a rational in lowest terms with a positive denominator
Norm(n, d) ==
    LET g == GCD(Abs(n), Abs(d))
    IN IF g = 0 THEN <<0, 1>>
       ELSE <<(IF d < 0 THEN -n ELSE n) \div g, Abs(d) \div g>>

RAdd(x, y) == Norm(x[1] * y[2] + y[1] * x[2], x[2] * y[2])
RSub(x, y) == Norm(x[1] * y[2] - y[1] * x[2], x[2] * y[2])
RMul(x, y) == Norm(x[1] * y[1], x[2] * y[2])
RInt(n) == <<n, 1>>
RLeq(x, y) == x[1] * y[2] <= y[1] * x[2]
RLess(x, y) == x[1] * y[2] < y[1] * x[2]

\* np.zeros(self.state_size)
Zeros == [i \in 1..state_size |-> RInt(0)]

JNone == [kind |-> "none", val |-> <<>>]
JInt(n) == [kind |-> "int", val |-> <<n>>]
JList(l) == [kind |-> "list", val |-> l]
JStr(t) == [kind |-> "str", val |-> IF t = "" THEN <<>> ELSE <<t>>]

\* str(action), str(path)
StrOf(x) == IF x.kind = "int" THEN <<0>> \o x.val ELSE x.val

\* Python truth of a JSON value: None, 0, '' and [] are false
Truthy(x) ==
    /\ x.kind # "none"
    /\ x.kind = "int" => x.val # <<0>>
    /\ x.kind \in {"list", "str"} => x.val # <<>>

\* "isinstance(state, list) and len(state) == agent.state_size"
ValidState(x) == x.kind = "list" /\ Len(x.val) = state_size

\* the state vectors the requests carry: all zero, all one
StateVectors == {[i \in 1..state_size |-> b] : b \in {0, 1}}

\* possible_paths.json: f"{src}->{dst}" is the pair <<src, dst>>
possible_paths ==
    (<<1, 4>> :> <<<<1, 2, 4>>, <<1, 3, 4>>>>)
    @@ (<<4, 1>> :> <<<<4, 3, 2, 1>>>>)
    @@ (<<1, 2>> :> <<>>)

\* initialize_q_table: one zero vector per distinct path string
initialize_q_table ==
    [k \in UNION {Range(possible_paths[pk]) : pk \in DOMAIN possible_paths} |-> Zeros]

\* np.argmax of a list: the first index (from 0) holding the maximum, a numpy.int64
ArgMax(q_values) ==
    [kind |-> "numpy.int64",
     val  |-> <<(CHOOSE i \in 1..Len(q_values) :
                    /\ \A j \in 1..Len(q_values) : RLeq(q_values[j], q_values[i])
                    /\ \A j \in 1..(i - 1) : RLess(q_values[j], q_values[i])) - 1>>]

\* a get_action that answers a pair it has no candidate for with an empty path
get_action_lenient(q, predict, state, src, dst) ==
    IF <<src, dst>> \notin DOMAIN possible_paths \/ possible_paths[<<src, dst>>] = <<>>
    THEN [found |-> TRUE, path |-> <<>>, action_idx |-> JInt(0),
          q_table |-> (<<>> :> Zeros) @@ q]
    ELSE [found |-> TRUE, path |-> possible_paths[<<src, dst>>][1], action_idx |-> JInt(0),
          q_table |-> q]

\* a get_action that ranks the candidates by their q_table entries
get_action_byTable(q, predict, state, src, dst) ==
    IF <<src, dst>> \notin DOMAIN possible_paths \/ possible_paths[<<src, dst>>] = <<>>
    THEN [found |-> FALSE, path |-> <<>>, action_idx |-> JNone, q_table |-> q]
    ELSE [found |-> TRUE,
          path |-> possible_paths[<<src, dst>>][
                      ArgMax([i \in 1..Len(possible_paths[<<src, dst>>]) |->
                                q[possible_paths[<<src, dst>>][i]][1]]).val[1] + 1],
          action_idx |-> ArgMax([i \in 1..Len(possible_paths[<<src, dst>>]) |->
                                   q[possible_paths[<<src, dst>>][i]][1]]),
          q_table |-> q]

\* QLearningAgent.get_action: r is [found, path, action_idx, q_table]; predict is
\* the model's output by state vector
get_action(q, predict, state, src, dst) ==
    IF <<src, dst>> \notin DOMAIN possible_paths
    THEN [found |-> FALSE, path |-> <<>>, action_idx |-> JNone, q_table |-> q]
    ELSE IF possible_paths[<<src, dst>>] = <<>>
    THEN [found |-> FALSE, path |-> <<>>, action_idx |-> JNone, q_table |-> q]
    ELSE [found |-> TRUE,
          path |-> possible_paths[<<src, dst>>][
                      ArgMax([i \in 1..Len(possible_paths[<<src, dst>>]) |-> predict[state]]).val[1] + 1],
          action_idx |-> ArgMax([i \in 1..Len(possible_paths[<<src, dst>>]) |-> predict[state]]),
          q_table |-> [k \in DOMAIN q \cup Range(possible_paths[<<src, dst>>]) |->
                         IF k \in DOMAIN q THEN q[k] ELSE Zeros]]

\* flask.jsonify: the JSON encoder has no rule for a numpy scalar and raises TypeError
Jsonify(status, body) ==
    IF \E f \in DOMAIN body : body[f].kind = "numpy.int64"
    THEN [status |-> 500, body |-> [error |-> JStr("TypeError")]]
    ELSE [status |-> status, body |-> body]

VARIABLES
    agent,            \* the module's agent: "None" until __main__ has constructed it
    learning_rate,    \* rl_config.json's learning_rate, a rational <<n, d>>
    discount_factor,  \* rl_config.json's discount_factor
    save_interval,    \* rl_config.json's save_interval
    model,            \* the approximator: its output by state vector
    q_table,          \* str(path or action) -> vector of state_size values
    recent_rewards,
    total_steps,
    saved_models,     \* the steps whose checkpoint models/dqn_model_<step>.h5 was written
    agent_req,        \* the last request the service has served
    agent_resp,       \* and its response
    workers,          \* the server's request threads that are inside update()
    config_file,      \* data/config/rl_config.json: <<>> if missing, else <<its object>>
    paths_file,       \* data/config/possible_paths.json exists
    server            \* the process: "down", "listening" (app.run) or "exited"

\* the files the process starts from and how far it has come
startVars == <<config_file, paths_file, server>>

agentVars == <<agent, learning_rate, discount_factor, save_interval, model, q_table,
               recent_rewards, total_steps, saved_models, agent_req, agent_resp, workers,
               startVars>>

\* QLearningAgent.__init__, the checks before anything is built: the exception raised
required_keys == {"state_size", "learning_rate", "discount_factor", "save_interval"}

QLearningAgent_init(config, paths) ==
    IF config = <<>> THEN "FileNotFoundError"
    ELSE IF ~(required_keys \subseteq DOMAIN config[1]) THEN "KeyError"
    ELSE IF ~paths THEN "FileNotFoundError"
    ELSE "none"

\* a __main__ that serves whatever the construction did
ServerAfter_always(exc) == "listening"

\* __main__: "agent = QLearningAgent()", then app.run unless that raised
ServerAfter(exc) == IF exc = "none" THEN "listening" ELSE "exited"

\* the record a request of the service starts from
Learner == [q_table |-> q_table, recent_rewards |-> recent_rewards,
            total_steps |-> total_steps, saved_models |-> saved_models, exc |-> "none"]

ErrorReply(status, text) == [status |-> status, body |-> [error |-> JStr(text)]]

\* get_path, after its validation: r is get_action's result
GetPathReply(r) ==
    [q_table  |-> r.q_table,
     response |-> IF r.found
                  THEN Jsonify(200, [path |-> JList(r.path), action_idx |-> r.action_idx])
                  ELSE ErrorReply(400, "No valid path found")]

\* POST /get_path with the JSON object data: the result is [q_table, response]
get_path(q, predict, data) ==
    IF data.src.kind = "none" /\ data.dst.kind = "none" /\ data.state.kind = "none"
    THEN [q_table |-> q, response |-> ErrorReply(400, "No JSON data provided")]
    ELSE IF ~Truthy(data.src) \/ ~Truthy(data.dst)
    THEN [q_table |-> q, response |-> ErrorReply(400, "Missing src or dst")]
    ELSE IF ~ValidState(data.state)
    THEN [q_table |-> q, response |-> ErrorReply(400, "State must be a list of length state_size")]
    ELSE IF <<data.src.val[1], data.dst.val[1]>> \notin DOMAIN possible_paths
    THEN [q_table |-> q, response |-> ErrorReply(400, "Invalid src-dst pair")]
    ELSE GetPathReply(get_action(q, predict, data.state.val, data.src.val[1], data.dst.val[1]))

\* "if action_str not in self.q_table: self.q_table[action_str] = np.zeros(...)"
WithEntry(q, k) == IF k \in DOMAIN q THEN q ELSE (k :> Zeros) @@ q

\* the blend with the weights of the old value and the target exchanged
Blend_swapped(lr, gamma, current_q, reward, next_max_q) ==
    [i \in DOMAIN current_q |->
        RAdd(RMul(lr, current_q[i]),
             RMul(RSub(RInt(1), lr), RAdd(RInt(reward), RMul(gamma, next_max_q))))]

\* (1 - lr) * current_q + lr * (reward + gamma * next_max_q), the scalar broadcast
Blend(lr, gamma, current_q, reward, next_max_q) ==
    [i \in DOMAIN current_q |->
        RAdd(RMul(RSub(RInt(1), lr), current_q[i]),
             RMul(lr, RAdd(RInt(reward), RMul(gamma, next_max_q))))]

\* "if self.total_steps % self.save_interval == 0: self.model.save(...)"
Checkpoint(a, si, save_ok) ==
    IF si = 0 THEN [a EXCEPT !.exc = "ZeroDivisionError"]
    ELSE IF a.total_steps % si # 0 THEN a
    ELSE IF save_ok THEN [a EXCEPT !.saved_models = @ \cup {a.total_steps}]
    ELSE [a EXCEPT !.exc = "OSError"]

\* update_q_table from the entry on: q1 is the table holding the action's entry
Blended(a, q1, key, lr, gamma, si, reward, next_max_q, save_ok) ==
    IF reward.kind # "int" THEN [a EXCEPT !.q_table = q1, !.exc = "TypeError"]
    ELSE Checkpoint([a EXCEPT !.q_table = [q1 EXCEPT ![key] =
                                              Blend(lr, gamma, q1[key], reward.val[1], next_max_q)],
                              !.recent_rewards = Append(@, reward.val[1]),
                              !.total_steps = @ + 1],
                    si, save_ok)

\* QLearningAgent.update_q_table; the maximum over the table's paths is of one value
update_q_table(a, lr, gamma, si, predict, state, action, reward, next_state, save_ok) ==
    Blended(a, WithEntry(a.q_table, StrOf(action)), StrOf(action), lr, gamma, si, reward,
            predict[next_state.val], save_ok)

\* update, after the learner has run: a is its record
UpdateReply(a) ==
    [a |-> [a EXCEPT !.exc = "none"],
     response |-> IF a.exc = "none" THEN Jsonify(200, [status |-> JStr("success")])
                  ELSE ErrorReply(500, a.exc)]

\* POST /update with the JSON object data: the result is [a, response]
update(a, lr, gamma, si, predict, data, save_ok) ==
    IF ~(Truthy(data.state) /\ Truthy(data.action) /\ data.reward.kind # "none"
         /\ Truthy(data.next_state))
    THEN [a |-> a, response |-> ErrorReply(400, "Missing required fields")]
    ELSE IF ~ValidState(data.state)
    THEN [a |-> a, response |-> ErrorReply(400, "State must be a list of length state_size")]
    ELSE IF ~ValidState(data.next_state)
    THEN [a |-> a, response |-> ErrorReply(400, "Next_state must be a list of length state_size")]
    ELSE UpdateReply(update_q_table(a, lr, gamma, si, predict, data.state, data.action,
                                    data.reward, data.next_state, save_ok))

\* "agent.recent_rewards[-100:]"
Last100(l) == SubSeq(l, Max2(1, Len(l) - 99), Len(l))

\* GET /stats
stats(a) ==
    Jsonify(200, [count |-> JInt(a.total_steps),
                  recent_rewards |-> JList(Last100(a.recent_rewards)),
                  paths |-> [kind |-> "dict", val |-> a.q_table]])

(***************************************************************************)
(* State.                                                                  *)
(***************************************************************************)
VARIABLES
    descriptor,       \* data/config/topology_info.json: "absent", "linear" or "grid"
    mac_to_port,      \* dpid -> (MAC -> port)
    topology_graph,   \* the live graph
    datapaths,        \* dpids with a registered handle
    flow_stats,       \* [count, flows]
    existing_flows,   \* the dedup set of flow keys
    flow_table,       \* the flow entries the switches hold, as the flow-mods that made them
    force_path_req,   \* the /force_path request waiting for the topology, if any
    events,           \* handler invocations so far
    lastEvent,        \* the event the last handler served
    sent,             \* the OpenFlow messages the last handler sent, in order
    decisions,        \* the path selections the last handler made, in order
    response          \* the HTTP response of the last handler, if it was a request

ctlVars == <<descriptor, mac_to_port, topology_graph, datapaths, flow_stats, existing_flows,
             flow_table, force_path_req, events, lastEvent, sent, decisions, response>>

\* the record a handler starts from
Running == [count |-> flow_stats.count, flows |-> flow_stats.flows,
            existing_flows |-> existing_flows, sent |-> <<>>, decisions |-> <<>>,
            reroutes |-> 0, exc |-> "none"]

FlowMods(msgs) == {i \in 1..Len(msgs) : msgs[i].type = "flow_mod"}
PacketOuts(msgs) == {i \in 1..Len(msgs) : msgs[i].type = "packet_out"}

\* datapath.send_msg(mod) of an OFPFlowMod (command OFPFC_ADD, the default): the
\* switch stores the entry, in place of the one with the same match and priority
FlowAdd(table, mod) ==
    {r \in table : ~(r.dpid = mod.dpid /\ r.match = mod.match /\ r.priority = mod.priority)}
    \cup {mod}

\* the switches' tables once the messages msgs[i..] have been delivered
RECURSIVE Deliver(_, _, _)
Deliver(table, msgs, i) ==
    IF i > Len(msgs) THEN table
    ELSE Deliver(IF msgs[i].type = "flow_mod" THEN FlowAdd(table, msgs[i]) ELSE table,
                 msgs, i + 1)

\* what a handler leaves behind
Commit(c) ==
    /\ flow_stats' = [count |-> c.count, flows |-> c.flows]
    /\ existing_flows' = c.existing_flows
    /\ flow_table' = Deliver(flow_table, c.sent, 1)
    /\ sent' = c.sent
    /\ decisions' = c.decisions

NoResponse == [status |-> 0, body |-> "none"]
NoRequest == [pc |-> "idle", polls |-> 0, src_ip |-> "", dst_ip |-> "", path |-> <<>>]

(***************************************************************************)
(* Inputs of the controller.                                               *)
(***************************************************************************)
\* switches that may connect: those of either topology
ConnectDpids == 1..Max2(4, GridSize * GridSize)

\* port numbers of port-status events: 1 .. the largest port of either topology
PortNos == 1..Max2(4, IF GridSize > 2 THEN 5 ELSE 3)

\* OFPPR_ADD, OFPPR_DELETE, OFPPR_MODIFY
OFPPR_ADD == 0
OFPPR_DELETE == 1
OFPPR_MODIFY == 2
Reasons == {OFPPR_ADD, OFPPR_DELETE, OFPPR_MODIFY}

\* an address that no host of the descriptor has
StrangerIp == "10.0.0.9"

Frame(ethertype, eth_src, eth_dst, src_ip, dst_ip) ==
    [ethertype |-> ethertype, eth_src |-> eth_src, eth_dst |-> eth_dst,
     src_ip |-> src_ip, dst_ip |-> dst_ip]

\* packet-ins <<in_port, frame>>: host 1 is heard on port 1, host 4 on port 2; an
\* ARP frame, IPv4 frames between the two hosts, one from an address that is no
\* host's, and an IPv6 frame (ethertype 0x86dd)
PacketIns ==
    {<<1, Frame(ETH_TYPE_ARP, 1, 4, "", "")>>,
     <<1, Frame(ETH_TYPE_IP, 1, 4, IpOf(1), IpOf(4))>>,
     <<2, Frame(ETH_TYPE_IP, 4, 1, IpOf(4), IpOf(1))>>,
     <<2, Frame(ETH_TYPE_IP, 4, 1, StrangerIp, IpOf(1))>>,
     <<2, Frame(34525, 4, 1, "", "")>>}

BufferIds == {OFP_NO_BUFFER, 1}

\* bodies of /force_path and /force_sp_path ("" and <<>>: the field is missing)
Request(src_ip, dst_ip, path) ==
    [pc |-> "idle", polls |-> 0, src_ip |-> src_ip, dst_ip |-> dst_ip, path |-> path]

Requests ==
    {Request("", IpOf(4), <<>>),
     Request(IpOf(1), "", <<1, 2, 3, 4>>),
     Request(StrangerIp, IpOf(4), <<>>),
     Request(IpOf(1), IpOf(4), <<>>),
     Request(IpOf(4), IpOf(1), <<>>),
     Request(IpOf(1), IpOf(4), <<1, 2, 3, 4>>),
     Request(IpOf(4), IpOf(1), <<4, 2, 1>>)}

(***************************************************************************)
(* Event handlers.                                                         *)
(***************************************************************************)
switch_features_handler(dpid) ==
    LET install(c, priority, match, actions, idle_timeout, hard_timeout) ==
            add_flow(c, dpid, priority, match, actions, idle_timeout, hard_timeout)
        c1 == install(Running, 0, OFPMatch(0, "", "", 0),
                      <<OFPActionOutput(OFPP_CONTROLLER, OFPCML_NO_BUFFER)>>, 0, 0)
        c2 == install(c1, 5, OFPMatch(ETH_TYPE_ARP, "", "", 0),
                      <<OFPActionOutput(OFPP_FLOOD, OFPCML_MAX)>>, 120, 300)
    IN /\ datapaths' = datapaths \cup {dpid}
       /\ Commit(c2)
       /\ topology_graph' = IF descriptor = "absent" THEN topology_graph
                            ELSE LoadTopology(topology_graph, DescriptorOf(descriptor))
       /\ UNCHANGED mac_to_port

\* the pairs of every record of the flow log, whatever its dpid
AffectedFrom_any(flows, dpid, i) ==
    [j \in 1..(Len(flows) - i + 1) |-> <<flows[j + i - 1].src_ip, flows[j + i - 1].dst_ip>>]

\* the affected (src_ip, dst_ip) pairs, in the order of the flow log
RECURSIVE AffectedFrom(_, _, _)
AffectedFrom(flows, dpid, i) ==
    IF i > Len(flows) THEN <<>>
    ELSE (IF flows[i].dpid = dpid THEN <<<<flows[i].src_ip, flows[i].dst_ip>>>> ELSE <<>>)
         \o AffectedFrom(flows, dpid, i + 1)

AffectedFlows(flows, dpid) == AffectedFrom(flows, dpid, 1)

RECURSIVE RerouteLoop(_, _, _, _, _, _, _, _, _)
RerouteLoop(c, g, dps, desc, affected_flows, i, rl_agent, tb, rewards) ==
    IF i > Len(affected_flows) \/ c.exc # "none" THEN c
    ELSE LET src_ip == affected_flows[i][1]
             dst_ip == affected_flows[i][2]
             switch_of(ip) == _get_switch_for_ip(desc, ip)
             src_switch == switch_of(src_ip)
             dst_switch == switch_of(dst_ip)
             c1 == IF src_switch # 0 /\ dst_switch # 0
                   THEN SelectAndInstall(c, g, dps, desc, "reroute", src_ip, dst_ip,
                                         src_switch, dst_switch, rl_agent, tb, rewards)
                   ELSE c
         IN RerouteLoop(c1, g, dps, desc, affected_flows, i + 1, rl_agent, tb, rewards)

_reroute_affected_flows(c, g, dps, desc, dpid, rl_agent, tb, rewards) ==
    [RerouteLoop(c, g, dps, desc, AffectedFlows(c.flows, dpid), 1, rl_agent, tb, rewards)
        EXCEPT !.reroutes = @ + 1]

\* "for neighbor in list(self.topology_graph[dpid])": st is [c, g]
RECURSIVE PortLoop(_, _, _, _, _, _, _, _, _, _)
PortLoop(c, g, dps, desc, dpid, port_no, neighbours, rl_agent, tb, rewards) ==
    IF neighbours = <<>> \/ c.exc # "none" THEN [c |-> c, g |-> g]
    ELSE LET neighbor == Head(neighbours)
             hit == g.port[{dpid, neighbor}] = port_no
             g1 == IF hit THEN remove_edge(g, dpid, neighbor) ELSE g
             c1 == IF hit
                   THEN _reroute_affected_flows(c, g1, dps, desc, dpid, rl_agent, tb, rewards)
                   ELSE c
         IN PortLoop(c1, g1, dps, desc, dpid, port_no, Tail(neighbours), rl_agent, tb, rewards)

\* r is [c, g]: the handler's running state and the graph it leaves
port_status_handler(dpid, port_no, reason, rl_agent, tb, rewards) ==
    IF reason \in {OFPPR_DELETE, OFPPR_MODIFY} /\ dpid \in Nodes(topology_graph)
    THEN PortLoop(Running, topology_graph, datapaths, descriptor, dpid, port_no,
                  topology_graph.adj[dpid], rl_agent, tb, rewards)
    ELSE [c |-> Running, g |-> topology_graph]

\* the MAC table after "setdefault(dpid, {})" and the store of eth.src
Learn(table, dpid, eth_src, in_port) ==
    (dpid :> ((eth_src :> in_port) @@ (IF dpid \in DOMAIN table THEN table[dpid] ELSE <<>>)))
    @@ table

OutPort(mac, dpid, eth_dst) ==
    IF eth_dst \in DOMAIN mac[dpid] THEN mac[dpid][eth_dst] ELSE OFPP_FLOOD

\* the end of packet_in_handler: the packet-out, unless an exception is propagating
PacketOut(c, dpid, in_port, out_port, buffer_id) ==
    IF c.exc # "none" THEN c
    ELSE [c EXCEPT !.sent = Append(@,
            [type |-> "packet_out", dpid |-> dpid, buffer_id |-> buffer_id,
             in_port |-> in_port, actions |-> <<OFPActionOutput(out_port, OFPCML_MAX)>>,
             data |-> IF buffer_id = OFP_NO_BUFFER THEN "msg.data" ELSE "None"])]

\* a selection that does not look at the out-port
Proactive_ungated(out_port, frame, src_switch, dst_switch, rl_agent, tb, rewards) ==
    IF frame.ethertype = ETH_TYPE_IP /\ src_switch # 0 /\ dst_switch # 0
    THEN SelectAndInstall(Running, topology_graph, datapaths, descriptor, "packet_in",
                          frame.src_ip, frame.dst_ip, src_switch, dst_switch, rl_agent, tb, rewards)
    ELSE Running

\* "if out_port != ofproto.OFPP_FLOOD: ... if ip_pkt: ... if src_switch and dst_switch:"
Proactive(out_port, frame, src_switch, dst_switch, rl_agent, tb, rewards) ==
    IF /\ out_port # OFPP_FLOOD
       /\ frame.ethertype = ETH_TYPE_IP
       /\ src_switch # 0 /\ dst_switch # 0
    THEN SelectAndInstall(Running, topology_graph, datapaths, descriptor, "packet_in",
                          frame.src_ip, frame.dst_ip, src_switch, dst_switch, rl_agent, tb, rewards)
    ELSE Running

PacketInLearned(mac, dpid, in_port, frame, buffer_id, rl_agent, tb, rewards) ==
    [mac |-> mac,
     c   |-> PacketOut(Proactive(OutPort(mac, dpid, frame.eth_dst), frame,
                                 _get_switch_for_ip(descriptor, frame.src_ip),
                                 _get_switch_for_ip(descriptor, frame.dst_ip),
                                 rl_agent, tb, rewards),
                       dpid, in_port, OutPort(mac, dpid, frame.eth_dst), buffer_id)]

\* a handler that learns the source MAC before it looks at the ethertype
packet_in_handler_learnFirst(dpid, in_port, frame, buffer_id, rl_agent, tb, rewards) ==
    IF frame.ethertype = ETH_TYPE_ARP
    THEN [mac |-> Learn(mac_to_port, dpid, frame.eth_src, in_port), c |-> Running]
    ELSE PacketInLearned(Learn(mac_to_port, dpid, frame.eth_src, in_port),
                         dpid, in_port, frame, buffer_id, rl_agent, tb, rewards)

\* r is [mac, c]: the MAC table and the handler's running state
packet_in_handler(dpid, in_port, frame, buffer_id, rl_agent, tb, rewards) ==
    IF frame.ethertype = ETH_TYPE_ARP
    THEN [mac |-> mac_to_port, c |-> Running]
    ELSE PacketInLearned(Learn(mac_to_port, dpid, frame.eth_src, in_port),
                         dpid, in_port, frame, buffer_id, rl_agent, tb, rewards)

Reply(status, body) == [status |-> status, body |-> body]

\* a reply that reports success whatever the selection gave
ForcePathReply_success(req, c1) ==
    [c |-> c1, response |-> Reply(200, "success"), req |-> NoRequest]

\* the responses of force_path_installation once the path c1 has been chosen and installed
ForcePathReply(req, c1) ==
    IF c1.exc # "none"
    THEN [c |-> c1, response |-> Reply(500, c1.exc), req |-> NoRequest]
    ELSE IF req.path = <<>> /\ c1.decisions[Len(c1.decisions)].path = <<>>
    THEN [c |-> c1, response |-> Reply(400, "No valid path found"), req |-> NoRequest]
    ELSE [c |-> c1, response |-> Reply(200, "success"), req |-> NoRequest]

\* force_path_installation from "src_switch = ..." on
ForcePathRouted(req, src_switch, dst_switch, rl_agent, tb, rewards) ==
    IF src_switch = 0 \/ dst_switch = 0
    THEN [c |-> Running, response |-> Reply(400, "Cannot find switches"), req |-> NoRequest]
    ELSE ForcePathReply(req,
            IF req.path = <<>>
            THEN SelectAndInstall(Running, topology_graph, datapaths, descriptor,
                                  "force_path", req.src_ip, req.dst_ip,
                                  src_switch, dst_switch, rl_agent, tb, rewards)
            ELSE _install_path_flows(Running, topology_graph, datapaths, req.path,
                                     req.src_ip, req.dst_ip))

ForcePathResolved(req, rl_agent, tb, rewards) ==
    ForcePathRouted(req, _get_switch_for_ip(descriptor, req.src_ip),
                    _get_switch_for_ip(descriptor, req.dst_ip), rl_agent, tb, rewards)

max_wait == 30

\* one evaluation of the wait loop's condition and body, then what follows the loop
\* if it is left: r is [c, response, req]
ForcePathStep(req, rl_agent, tb, rewards) ==
    IF req.polls < max_wait /\ Nodes(topology_graph) = {}
    THEN [c |-> Running, response |-> NoResponse,
          req |-> [req EXCEPT !.pc = "waiting", !.polls = @ + 1]]
    ELSE IF Nodes(topology_graph) = {}
    THEN [c |-> Running, response |-> Reply(503, "Topology not ready"), req |-> NoRequest]
    ELSE ForcePathResolved(req, rl_agent, tb, rewards)

\* force_path_installation from its start
force_path_installation(req, rl_agent, tb, rewards) ==
    IF req.src_ip = "" \/ req.dst_ip = ""
    THEN [c |-> Running, response |-> Reply(400, "Missing src_ip or dst_ip"), req |-> NoRequest]
    ELSE ForcePathStep(req, rl_agent, tb, rewards)

force_sp_path_installation(req) ==
    IF req.src_ip = "" \/ req.dst_ip = "" \/ req.path = <<>>
    THEN [c |-> Running, response |-> Reply(400, "Missing src_ip, dst_ip, or path"),
          req |-> force_path_req]
    ELSE [c |-> _install_path_flows(Running, topology_graph, datapaths, req.path,
                                    req.src_ip, req.dst_ip),
          response |-> Reply(200, "success"), req |-> force_path_req]

(***************************************************************************)
(* The provisioner, mininet_topology.py: run_topology and the steps it     *)
(* calls, one action per step.                                             *)
(***************************************************************************)
\* largest --grid-size the provisioner is run with
MaxGridSize == 3

\* --topo values; run_topology rejects anything but the first two
TopoArgs == {"linear", "grid", "ring"}

\* what Topo.__init__ -> build -> generate_topology_info writes: nothing for a
\* topology type run_topology rejects before it builds one
WrittenBy(type, size) ==
    IF type = "linear" THEN <<LinearDescriptor>>
    ELSE IF type = "grid" THEN <<GridDescriptor(size)>>
    ELSE <<>>

\* "if not check_controller_connection(): return"
AfterCheck_ignored(reachable) == "checked"

AfterCheck(reachable) == IF reachable THEN "checked" ELSE "returned"

\* trigger_initial_flows: the readiness window in seconds, the attempts per pair
ready_window == 30
max_retries == 5

\* net.hosts
NetHosts == 1..4

\* "if i != j"
Distinct_any(i, j) == TRUE

Distinct(i, j) == i # j

\* the pair the two nested loops reach next from (i, j); i = 0 before the first,
\* i = 5 once both loops are exhausted
RECURSIVE NextPair(_, _)
NextPair(i, j) ==
    IF i = 0 THEN NextPair(1, 0)
    ELSE IF i > 4 THEN <<5, 0>>
    ELSE IF j >= 4 THEN NextPair(i + 1, 0)
    ELSE IF Distinct(i, j + 1) THEN <<i, j + 1>>
    ELSE NextPair(i, j + 1)

\* the attempts of a pair without the "break"
AfterAttempt_noBreak(i, j, attempt, ok) ==
    IF i # 0 /\ attempt < max_retries - 1
    THEN [i |-> i, j |-> j, attempt |-> attempt + 1]
    ELSE [i |-> NextPair(i, j)[1], j |-> NextPair(i, j)[2], attempt |-> 0]

\* where the seeding goes after one attempt for the pair (i, j): "break" on
\* success, the next attempt after a failure, the next pair after the last attempt
AfterAttempt(i, j, attempt, ok) ==
    IF ~ok /\ attempt < max_retries - 1
    THEN [i |-> i, j |-> j, attempt |-> attempt + 1]
    ELSE [i |-> NextPair(i, j)[1], j |-> NextPair(i, j)[2], attempt |-> 0]

NoSeed == [i |-> 0, j |-> 0, attempt |-> 0]

VARIABLES
    prov_pc,          \* where run_topology is
    topo_type,        \* --topo
    grid_size,        \* --grid-size
    topology_info,    \* data/config/topology_info.json as this run wrote it: <<>> or <<content>>
    run_log,          \* what the run has done to the outside, in order
    elapsed,          \* seconds spent in the readiness loop
    seed,             \* the pair and attempt the seeding is at
    force_reqs,       \* POST /force_path requests issued
    failed_reqs,      \* those of them that failed
    seeded            \* the (src_ip, dst_ip) pairs requested

provVars == <<prov_pc, topo_type, grid_size, topology_info, run_log, elapsed, seed,
              force_reqs, failed_reqs, seeded>>

(***************************************************************************)
(* Text.  A Python str is the sequence of its characters, and the methods  *)
(* the monitor calls on one are computed on that sequence (positions are   *)
(* Python's, counted from 0).                                              *)
(***************************************************************************)
Whitespace == {" ", "\t", "\n", "\r"}

Digits == <<"0", "1", "2", "3", "4", "5", "6", "7", "8", "9">>

MinOf(S) == CHOOSE x \in S : \A y \in S : x <= y
MaxOf(S) == CHOOSE x \in S : \A y \in S : y <= x

\* s[a:b]
Slice(s, a, b) == SubSeq(s, a + 1, b)

\* s.find(sub, start)
Find(s, sub, start) ==
    IF \E i \in start..(Len(s) - Len(sub)) : Slice(s, i, i + Len(sub)) = sub
    THEN MinOf({i \in start..(Len(s) - Len(sub)) : Slice(s, i, i + Len(sub)) = sub})
    ELSE -1

\* sub in s
Contains(sub, s) == Find(s, sub, 0) # -1

\* s.split(sep)
RECURSIVE Split(_, _)
Split(s, sep) ==
    IF Find(s, sep, 0) = -1 THEN <<s>>
    ELSE <<Slice(s, 0, Find(s, sep, 0))>> \o Split(Slice(s, Find(s, sep, 0) + Len(sep), Len(s)), sep)

\* s.strip()
Strip(s) ==
    IF \A i \in 1..Len(s) : s[i] \in Whitespace THEN <<>>
    ELSE SubSeq(s, MinOf({i \in 1..Len(s) : s[i] \notin Whitespace}),
                   MaxOf({i \in 1..Len(s) : s[i] \notin Whitespace}))

\* the first position at or after start that holds white space, or len(s)
NextSpace(s, start) == MinOf({i \in start..Len(s) : i = Len(s) \/ s[i + 1] \in Whitespace})

\* s.split(): the words between runs of white space
RECURSIVE Words(_)
Words(s) ==
    IF Strip(s) = <<>> THEN <<>>
    ELSE <<Slice(Strip(s), 0, NextSpace(Strip(s), 0))>>
            \o Words(Slice(Strip(s), NextSpace(Strip(s), 0), Len(Strip(s))))

DigitValue(c) == CHOOSE v \in 0..9 : Digits[v + 1] = c

RECURSIVE Decimal(_)
Decimal(s) == IF s = <<>> THEN 0 ELSE 10 * Decimal(SubSeq(s, 1, Len(s) - 1)) + DigitValue(s[Len(s)])

IsDigits(s) == s # <<>> /\ \A i \in 1..Len(s) : \E v \in 1..10 : Digits[v] = s[i]

\* int(s): <<the value>>, or <<>> where Python raises ValueError
ParseInt(s) ==
    IF IsDigits(Strip(s)) THEN <<Decimal(Strip(s))>>
    ELSE IF Strip(s) # <<>> /\ Strip(s)[1] \in {"+", "-"} /\ IsDigits(Tail(Strip(s)))
    THEN <<(IF Strip(s)[1] = "-" THEN -1 ELSE 1) * Decimal(Tail(Strip(s)))>>
    ELSE <<>>

\* d.get(key, default)
Get(d, key, default) == IF key \in DOMAIN d THEN d[key] ELSE default

\* d[key] = value
Put(d, key, value) == [k \in DOMAIN d \cup {key} |-> IF k = key THEN value ELSE d[k]]

\* the empty dict
EmptyDict == [k \in {} |-> 0]

\* the line of the parser's docstring with a transmit side
port_line ==
    <<"p", "o", "r", "t", " ", " ", "1", ":", " ", "r", "x", " ", "p", "k", "t", "s", "=", "1",
      "2", "3", ",", " ", "b", "y", "t", "e", "s", "=", "4", "5", "6", ",", " ", "d", "r", "o",
      "p", "=", "0", ",", " ", "e", "r", "r", "s", "=", "0", ",", " ", "f", "r", "a", "m", "e",
      "=", "0", ",", " ", "o", "v", "e", "r", "=", "0", ",", " ", "c", "r", "c", "=", "0", ",",
      " ", "t", "x", " ", "p", "k", "t", "s", "=", "1", "0", ",", " ", "b", "y", "t", "e", "s",
      "=", "2", "0", ",", " ", "d", "r", "o", "p", "=", "1">>

\* two lines as ovs-ofctl prints them, the receive side only
rx_lines ==
    <<"p", "o", "r", "t", " ", "L", "O", "C", "A", "L", ":", " ", "r", "x", " ", "p", "k", "t",
      "s", "=", "0", ",", " ", "b", "y", "t", "e", "s", "=", "0", ",", " ", "d", "r", "o", "p",
      "=", "0", "\n", "p", "o", "r", "t", " ", " ", "2", ":", " ", "r", "x", " ", "p", "k",
      "t", "s", "=", "5", ",", " ", "b", "y", "t", "e", "s", "=", "3", "0", "0", ",", " ", "d",
      "r", "o", "p", "=", "2", "\n">>

\* one line of ovs-ofctl dump-flows
flow_lines ==
    <<" ", "c", "o", "o", "k", "i", "e", "=", "0", "x", "0", ",", " ", "n", "_", "p", "a", "c",
      "k", "e", "t", "s", "=", "4", ",", " ", "n", "_", "b", "y", "t", "e", "s", "=", "3", "9",
      "2", ",", " ", "p", "r", "i", "o", "r", "i", "t", "y", "=", "1", ",", "i", "n", "_", "p",
      "o", "r", "t", "=", "1", " ", "a", "c", "t", "i", "o", "n", "s", "=", "o", "u", "t", "p",
      "u", "t", ":", "2", "\n">>

\* the reply line of ping
ping_reply ==
    <<"6", "4", " ", "b", "y", "t", "e", "s", " ", "f", "r", "o", "m", " ", "1", "0", ".", "0",
      ".", "0", ".", "2", ":", " ", "i", "c", "m", "p", "_", "s", "e", "q", "=", "1", " ", "t",
      "t", "l", "=", "6", "4", " ", "t", "i", "m", "e", "=", "0", ".", "2", "5", " ", "m", "s",
      "\n">>

\* ovs-vsctl list-br
one_bridge == <<"s", "1", "\n">>

two_bridges == <<"s", "1", "\n", "s", "2", "\n">>

s_port == <<"p", "o", "r", "t">>

s_rx == <<"r", "x">>

s_tx == <<"t", "x">>

s_rx_ == <<"r", "x", "_">>

s_tx_ == <<"t", "x", "_">>

s_rx_bytes == <<"r", "x", "_", "b", "y", "t", "e", "s">>

s_tx_bytes == <<"t", "x", "_", "b", "y", "t", "e", "s">>

s_rx_drop == <<"r", "x", "_", "d", "r", "o", "p">>

s_tx_drop == <<"t", "x", "_", "d", "r", "o", "p">>

s_rx_pkts == <<"r", "x", "_", "p", "k", "t", "s">>

s_tx_pkts == <<"t", "x", "_", "p", "k", "t", "s">>

s_priority == <<"p", "r", "i", "o", "r", "i", "t", "y">>

s_n_packets == <<"n", "_", "p", "a", "c", "k", "e", "t", "s">>

s_n_packets_eq == <<"n", "_", "p", "a", "c", "k", "e", "t", "s", "=">>

s_n_bytes_eq == <<"n", "_", "b", "y", "t", "e", "s", "=">>

s_time_eq == <<"t", "i", "m", "e", "=">>

s_ms == <<"m", "s">>

s_system == <<"s", "y", "s", "t", "e", "m">>

\* NetworkMonitor._parse_port_stats, one side of a line: the dict of its key=value
\* tokens under the prefix, or <<>> where the unpacking raises ValueError
RECURSIVE ParseSide(_, _, _, _)
ParseSide(tokens, i, prefix, sstats) ==
    IF i > Len(tokens) THEN <<sstats>>
    ELSE IF ~Contains(<<"=">>, tokens[i]) THEN ParseSide(tokens, i + 1, prefix, sstats)
    ELSE IF Len(Split(Strip(tokens[i]), <<"=">>)) # 2 THEN <<>>
    ELSE IF ParseInt(Split(Strip(tokens[i]), <<"=">>)[2]) = <<>>
    THEN ParseSide(tokens, i + 1, prefix, sstats)
    ELSE ParseSide(tokens, i + 1, prefix,
                   Put(sstats, prefix \o Split(Strip(tokens[i]), <<"=">>)[1],
                       ParseInt(Split(Strip(tokens[i]), <<"=">>)[2])[1]))

\* {**rx_stats, **tx_stats}
Merge(rx_stats, tx_stats) ==
    [k \in DOMAIN rx_stats \cup DOMAIN tx_stats |->
        IF k \in DOMAIN tx_stats THEN tx_stats[k] ELSE rx_stats[k]]

\* the receive side of the statistics of a line
RxStats(stats_part) ==
    IF Contains(s_rx, stats_part)
    THEN ParseSide(Split(Split(stats_part, s_tx)[1], <<",">>), 1, s_rx_, EmptyDict)
    ELSE <<EmptyDict>>

\* and the transmit side
TxStats(stats_part) ==
    IF Contains(s_tx, stats_part)
    THEN ParseSide(Split(Split(stats_part, s_tx)[2], <<",">>), 1, s_tx_, EmptyDict)
    ELSE <<EmptyDict>>

\* the body of the loop of _parse_port_stats for one line: port_stats afterwards
ParsePortLine(line, port_stats) ==
    IF ~(Contains(s_port, line) /\ Contains(s_rx, line)) THEN port_stats
    ELSE IF Len(Split(line, <<":">>)) < 2 THEN port_stats
    ELSE IF Words(Split(line, <<":">>)[1]) = <<>> THEN port_stats
    ELSE IF ParseInt(Words(Split(line, <<":">>)[1])[Len(Words(Split(line, <<":">>)[1]))]) = <<>>
    THEN port_stats
    ELSE IF RxStats(Split(line, <<":">>)[2]) = <<>> \/ TxStats(Split(line, <<":">>)[2]) = <<>>
    THEN port_stats
    ELSE Put(port_stats,
             ParseInt(Words(Split(line, <<":">>)[1])[Len(Words(Split(line, <<":">>)[1]))])[1],
             Merge(RxStats(Split(line, <<":">>)[2])[1], TxStats(Split(line, <<":">>)[2])[1]))

RECURSIVE ParsePortLines(_, _, _)
ParsePortLines(lines, i, port_stats) ==
    IF i > Len(lines) THEN port_stats
    ELSE ParsePortLines(lines, i + 1, ParsePortLine(lines[i], port_stats))

_parse_port_stats(output) == ParsePortLines(Split(output, <<"\n">>), 1, EmptyDict)

\* the integer after the label in a line of dump-flows, as _parse_flow_stats reads it:
\* <<the count>>, or <<>> when the key is not set
FlowCounter(line, label) ==
    IF ~Contains(label, line) THEN <<>>
    ELSE IF Find(line, <<",">>, Find(line, label, 0) + Len(label)) # -1
    THEN ParseInt(Slice(line, Find(line, label, 0) + Len(label),
                        Find(line, <<",">>, Find(line, label, 0) + Len(label))))
    ELSE IF Find(line, <<" ">>, Find(line, label, 0) + Len(label)) # -1
    THEN ParseInt(Slice(line, Find(line, label, 0) + Len(label),
                        Find(line, <<" ">>, Find(line, label, 0) + Len(label))))
    ELSE <<>>

\* flow_info of a line
FlowInfo(line) ==
    [line |-> Strip(line), timestamp |-> "time",
     n_packets |-> FlowCounter(line, s_n_packets_eq), n_bytes |-> FlowCounter(line, s_n_bytes_eq)]

RECURSIVE ParseFlowLines(_, _)
ParseFlowLines(lines, i) ==
    IF i > Len(lines) THEN <<>>
    ELSE IF Contains(s_priority, lines[i]) /\ Contains(s_n_packets, lines[i])
    THEN <<FlowInfo(lines[i])>> \o ParseFlowLines(lines, i + 1)
    ELSE ParseFlowLines(lines, i + 1)

_parse_flow_stats(output) == ParseFlowLines(Split(output, <<"\n">>), 1)

RECURSIVE Pow10(_)
Pow10(n) == IF n = 0 THEN 1 ELSE 10 * Pow10(n - 1)

\* float(s) of an unsigned decimal: <<the value>>, or <<>> where Python raises ValueError
ParseFloat(s) ==
    IF IsDigits(Strip(s)) THEN <<RInt(Decimal(Strip(s)))>>
    ELSE IF /\ Len(Split(Strip(s), <<".">>)) = 2
            /\ IsDigits(Split(Strip(s), <<".">>)[1] \o Split(Strip(s), <<".">>)[2])
    THEN <<Norm(Decimal(Split(Strip(s), <<".">>)[1] \o Split(Strip(s), <<".">>)[2]),
                Pow10(Len(Split(Strip(s), <<".">>)[2])))>>
    ELSE <<>>

\* NetworkMonitor._parse_ping_latency: <<the latency>>, or <<>> for None
RECURSIVE PingLines(_, _)
PingLines(lines, i) ==
    IF i > Len(lines) THEN <<>>
    ELSE IF /\ Contains(s_time_eq, lines[i])
            /\ Find(lines[i], s_ms, Find(lines[i], s_time_eq, 0) + 5) # -1
    THEN ParseFloat(Slice(lines[i], Find(lines[i], s_time_eq, 0) + 5,
                          Find(lines[i], s_ms, Find(lines[i], s_time_eq, 0) + 5)))
    ELSE PingLines(lines, i + 1)

_parse_ping_latency(ping_output) == PingLines(Split(ping_output, <<"\n">>), 1)

\* a deque(maxlen=n) after append(x)
DequeAppend(q, x, n) == SubSeq(Append(q, x), Max2(1, Len(q) + 2 - n), Len(q) + 1)

Pick(S) == CHOOSE x \in S : TRUE

RECURSIVE SumOver(_, _)
SumOver(f, S) == IF S = {} THEN 0 ELSE f[Pick(S)] + SumOver(f, S \ {Pick(S)})

\* _collect_network_metrics, the inner loop: rx_bytes + tx_bytes over the ports of a bridge
BridgeThroughput(ports) ==
    SumOver([p \in DOMAIN ports |-> Get(ports[p], s_rx_bytes, 0) + Get(ports[p], s_tx_bytes, 0)],
            DOMAIN ports)

\* and rx_drop + tx_drop
BridgeLoss(ports) ==
    SumOver([p \in DOMAIN ports |-> Get(ports[p], s_rx_drop, 0) + Get(ports[p], s_tx_drop, 0)],
            DOMAIN ports)

\* the keys of switch_stats that are bridges
BridgesOf(sstats) == DOMAIN sstats \ {s_system}

\* the bridges _collect_network_metrics counts as active
ActiveBridges(sstats) ==
    {b \in BridgesOf(sstats) : {"ports", "timestamp"} \subseteq DOMAIN sstats[b]}

\* the sums of the sample divided by the number of active switches
Average(total, active_switches) == IF active_switches > 0 THEN Norm(total, active_switches) ELSE RInt(0)

\* _collect_network_metrics: the network_state appended
network_state(sstats) ==
    [timestamp |-> "time",
     avg_throughput |->
        Average(SumOver([b \in ActiveBridges(sstats) |-> BridgeThroughput(sstats[b].ports)],
                        ActiveBridges(sstats)), Cardinality(ActiveBridges(sstats))),
     avg_packet_loss |->
        Average(SumOver([b \in ActiveBridges(sstats) |-> BridgeLoss(sstats[b].ports)],
                        ActiveBridges(sstats)), Cardinality(ActiveBridges(sstats))),
     num_active_switches |-> Cardinality(ActiveBridges(sstats)),
     total_switches |-> Cardinality(BridgesOf(sstats))]

\* the least and the greatest of a series of numbers
RECURSIVE RMinOf(_)
RMinOf(s) ==
    IF Len(s) = 1 THEN s[1]
    ELSE IF RLeq(s[1], RMinOf(Tail(s))) THEN s[1] ELSE RMinOf(Tail(s))

RECURSIVE RMaxOf(_)
RMaxOf(s) ==
    IF Len(s) = 1 THEN s[1]
    ELSE IF RLeq(RMaxOf(Tail(s)), s[1]) THEN s[1] ELSE RMaxOf(Tail(s))

RECURSIVE RSum(_)
RSum(s) == IF s = <<>> THEN RInt(0) ELSE RAdd(s[1], RSum(Tail(s)))

\* np.mean
Mean(s) == RMul(RSum(s), <<1, Len(s)>>)

\* np.std, held as its square: the mean of the squared distances from the mean
StdSquared(s) == Mean([i \in 1..Len(s) |-> RMul(RSub(s[i], Mean(s)), RSub(s[i], Mean(s)))])

\* calculate_stats of _generate_performance_report
calculate_stats(samples) ==
    IF samples = <<>>
    THEN [avg |-> RInt(0), min |-> RInt(0), max |-> RInt(0), std |-> RInt(0)]
    ELSE [avg |-> Mean(samples), min |-> RMinOf(samples), max |-> RMaxOf(samples),
          std |-> StdSquared(samples), count |-> Len(samples)]

\* what psutil reports in an iteration of _monitor_system_resources
SystemReadings ==
    {[timestamp |-> "time", cpu_percent |-> cpu, memory_percent |-> 40, memory_used_gb |-> 3,
      disk_percent |-> 70, network_bytes_sent |-> 0, network_bytes_recv |-> 0,
      network_packets_sent |-> 0, network_packets_recv |-> 0] : cpu \in {0, 50}}

\* what GET /stats of the agent gives _generate_performance_report: {} unless it answers 200
RlReplies == {EmptyDict, [count |-> 2, recent_rewards |-> <<1, 1>>, paths |-> EmptyDict]}

\* the four series of NetworkMonitor.__init__
NoSamples ==
    [latency_samples |-> <<>>, throughput_samples |-> <<>>, packet_loss_samples |-> <<>>,
     jitter_samples |-> <<>>]

\* NetworkMonitor._generate_performance_report.  The controller serves its statistics
\* at /stats, so the GET of /rlcontroller/stats never answers 200 and controller_stats is {}
_generate_performance_report(sstats, flows, metrics, perf, rl_stats) ==
    [timestamp |-> "time",
     report_generated |-> "time",
     monitoring_duration_seconds |-> Norm(Len(metrics), 10),
     network_performance |->
        [latency_ms |-> calculate_stats(perf.latency_samples),
         throughput_bps |-> calculate_stats(perf.throughput_samples),
         packet_loss_rate |-> calculate_stats(perf.packet_loss_samples),
         jitter_ms |-> calculate_stats(perf.jitter_samples)],
     system_performance |->
        [cpu_usage_percent |-> Get(Get(sstats, s_system, EmptyDict), "cpu_percent", 0),
         memory_usage_percent |-> Get(Get(sstats, s_system, EmptyDict), "memory_percent", 0),
         disk_usage_percent |-> Get(Get(sstats, s_system, EmptyDict), "disk_percent", 0)],
     topology_info |->
        [active_switches |-> Cardinality(BridgesOf(sstats)),
         total_flows |-> SumOver([b \in DOMAIN flows |-> Len(flows[b])], DOMAIN flows),
         monitoring_samples |-> Len(metrics)],
     rl_agent_performance |-> rl_stats,
     controller_stats |-> EmptyDict,
     data_files |->
        [switch_stats |-> DOMAIN sstats,
         flow_stats |-> DOMAIN flows,
         performance_samples |->
            [latency |-> Len(perf.latency_samples),
             throughput |-> Len(perf.throughput_samples),
             packet_loss |-> Len(perf.packet_loss_samples)]]]

\* min(x / k, 1.0) without the bound
Normalized_unbounded(x, k) == Norm(x[1], x[2] * k)

\* min(x / k, 1.0)
Normalized(x, k) ==
    IF RLeq(RInt(1), Norm(x[1], x[2] * k)) THEN RInt(1) ELSE Norm(x[1], x[2] * k)

max_throughput == 1000000000
max_packet_loss == 1000
max_switches == 100

\* NetworkMonitor.get_current_network_state
get_current_network_state(metrics) ==
    IF metrics = <<>> THEN <<RInt(0), RInt(0), RInt(0), RInt(0)>>
    ELSE <<Normalized(metrics[Len(metrics)].avg_throughput, max_throughput),
           Normalized(metrics[Len(metrics)].avg_packet_loss, max_packet_loss),
           Normalized(RInt(metrics[Len(metrics)].num_active_switches), max_switches),
           Normalized(metrics[Len(metrics)].avg_packet_loss, max_packet_loss)>>

\* NetworkMonitor.get_monitoring_summary
get_monitoring_summary(active, sstats, metrics, perf) ==
    [monitoring_active |-> active,
     switches_monitored |-> Cardinality(BridgesOf(sstats)),
     network_samples |-> Len(metrics),
     performance_samples |->
        [latency |-> Len(perf.latency_samples),
         throughput |-> Len(perf.throughput_samples),
         packet_loss |-> Len(perf.packet_loss_samples)],
     latest_network_state |-> get_current_network_state(metrics),
     uptime_seconds |-> "time"]

\* the series create_monitoring_plots draws
PlottedSeries == <<"latency_ms", "throughput_bps", "packet_loss_rate">>

\* create_monitoring_plots on the file traffic_results.json: what it leaves behind
create_monitoring_plots(file, matplotlib) ==
    IF ~matplotlib THEN <<"no_matplotlib">>
    ELSE IF file = <<>> THEN <<"no_file">>
    ELSE IF \E i \in 1..3 : "count" \notin DOMAIN file[1].network_performance[PlottedSeries[i]]
    THEN <<"plot_error">>
    ELSE IF file[1].rl_agent_performance # EmptyDict THEN <<"plot", "rl_plot">>
    ELSE <<"plot">>

(***************************************************************************)
(* The monitor's state: the NetworkMonitor of main(), its threads, the     *)
(* file traffic_results.json and what the process has left behind.         *)
(***************************************************************************)
MaxPolls == 3

VARIABLES
    mon_pc,               \* where main() is: "none", "main", "loop", "finally", "exited"
    running,              \* self.running
    pollers,              \* the threads started so far: the loop each runs and where it is
    switch_stats,         \* self.switch_stats
    bridge_flows,         \* self.flow_stats
    network_metrics,      \* self.network_metrics
    performance_metrics,  \* self.performance_metrics
    traffic_results,      \* traffic_results.json: <<>> if there is none, else <<the report>>
    dumped,               \* per bridge, the text of dump-ports its entry was parsed from
    summary,              \* the last get_monitoring_summary of main(): <<>> or <<it>>
    mon_log,              \* reports written, plots made and the stop, in order
    polls                 \* iterations begun, of the pollers and of main()

monVars == <<mon_pc, running, pollers, switch_stats, bridge_flows, network_metrics,
             performance_metrics, traffic_results, dumped, summary, mon_log, polls>>

\* the targets of the threads of start_monitoring, in its order
Targets ==
    <<"_monitor_ovs_switches", "_monitor_system_resources", "_collect_network_metrics",
      "_save_periodic_data", "_monitor_connectivity">>

\* NetworkMonitor.start_monitoring: the threads alive afterwards
start_monitoring(active, threads) ==
    IF active THEN threads
    ELSE threads \o [i \in 1..5 |-> [target |-> Targets[i], at |-> "check"]]

(***************************************************************************)
(* The controller's actions: one per event or request.                     *)
(***************************************************************************)
Event(type, dpid, port_no, reason, frame, req) ==
    [type |-> type, dpid |-> dpid, port_no |-> port_no, reason |-> reason, frame |-> frame,
     req |-> req]

NoFrame == [ethertype |-> 0, eth_src |-> 0, eth_dst |-> 0, src_ip |-> "", dst_ip |-> ""]

CtlInit ==
    /\ descriptor = "absent"
    /\ mac_to_port = <<>>
    /\ topology_graph = EmptyGraph
    /\ datapaths = {}
    /\ flow_stats = [count |-> 0, flows |-> <<>>]
    /\ existing_flows = {}
    /\ flow_table = {}
    /\ force_path_req = NoRequest
    /\ events = 0
    /\ lastEvent = Event("init", 0, 0, 0, NoFrame, NoRequest)
    /\ sent = <<>>
    /\ decisions = <<>>
    /\ response = NoResponse

\* the provisioner builds its topology object, which writes the descriptor
WriteDescriptor ==
    /\ descriptor = "absent"
    /\ \E topo \in Topologies : descriptor' = topo
    /\ UNCHANGED <<mac_to_port, topology_graph, datapaths, flow_stats, existing_flows,
                   flow_table, force_path_req, events, lastEvent, sent, decisions, response>>
    /\ UNCHANGED <<agentVars, provVars, monVars>>

\* what a request handler leaves behind: r is [c, response, req]
Answer(r) ==
    /\ Commit(r.c)
    /\ response' = r.response
    /\ force_path_req' = r.req

\* what the port-status handler leaves behind: r is [c, g]
AfterPortStatus(r) ==
    /\ Commit(r.c)
    /\ topology_graph' = r.g

\* what the packet-in handler leaves behind: r is [mac, c]
AfterPacketIn(r) ==
    /\ Commit(r.c)
    /\ mac_to_port' = r.mac

SwitchFeatures ==
    /\ events < MaxEvents
    /\ \E dpid \in ConnectDpids :
        /\ switch_features_handler(dpid)
        /\ lastEvent' = Event("switch_features", dpid, 0, 0, NoFrame, NoRequest)
    /\ events' = events + 1
    /\ response' = NoResponse
    /\ UNCHANGED <<descriptor, force_path_req>>
    /\ UNCHANGED <<agentVars, provVars, monVars>>

\* while a /force_path request waits for the topology, the model lets switches
\* connect and the descriptor appear, the events its wait depends on, and nothing else
PortStatus ==
    /\ events < MaxEvents
    /\ force_path_req.pc = "idle"
    /\ \E dpid \in datapaths, port_no \in PortNos, reason \in Reasons :
       \E rl_agent \in IF reason = OFPPR_ADD THEN {"unreachable"} ELSE AgentBehaviours,
          tb \in IF reason = OFPPR_ADD THEN {"lo"} ELSE TieBreaks :
        /\ AfterPortStatus(port_status_handler(dpid, port_no, reason, rl_agent, tb, recent_rewards))
        /\ lastEvent' = Event("port_status", dpid, port_no, reason, NoFrame, NoRequest)
    /\ events' = events + 1
    /\ response' = NoResponse
    /\ UNCHANGED <<descriptor, mac_to_port, datapaths, force_path_req>>
    /\ UNCHANGED <<agentVars, provVars, monVars>>

PacketIn ==
    /\ events < MaxEvents
    /\ force_path_req.pc = "idle"
    /\ \E dpid \in datapaths, pkt \in PacketIns, buffer_id \in BufferIds :
       \E rl_agent \in IF pkt[2].ethertype = ETH_TYPE_IP THEN AgentBehaviours ELSE {"unreachable"},
          tb \in IF pkt[2].ethertype = ETH_TYPE_IP THEN TieBreaks ELSE {"lo"} :
        /\ AfterPacketIn(packet_in_handler(dpid, pkt[1], pkt[2], buffer_id, rl_agent, tb, recent_rewards))
        /\ lastEvent' = Event("packet_in", dpid, pkt[1], 0, pkt[2], NoRequest)
    /\ events' = events + 1
    /\ response' = NoResponse
    /\ UNCHANGED <<descriptor, topology_graph, datapaths, force_path_req>>
    /\ UNCHANGED <<agentVars, provVars, monVars>>

\* POST /force_path arrives: validation, then the first pass of the wait loop
ForcePath ==
    /\ events < MaxEvents
    /\ force_path_req.pc = "idle"
    /\ \E req \in Requests, rl_agent \in AgentBehaviours, tb \in TieBreaks :
        /\ Answer(force_path_installation(req, rl_agent, tb, recent_rewards))
        /\ lastEvent' = Event("force_path", 0, 0, 0, NoFrame, req)
    /\ events' = events + 1
    /\ UNCHANGED <<descriptor, mac_to_port, topology_graph, datapaths>>
    /\ UNCHANGED <<agentVars, provVars, monVars>>

\* the waiting request wakes from time.sleep(1); the agent is asked only once the
\* loop has been left with a graph
ForcePathPoll ==
    /\ force_path_req.pc = "waiting"
    /\ \E rl_agent \in IF Nodes(topology_graph) = {} THEN {"unreachable"} ELSE AgentBehaviours,
          tb \in IF Nodes(topology_graph) = {} THEN {"lo"} ELSE TieBreaks :
        /\ Answer(ForcePathStep(force_path_req, rl_agent, tb, recent_rewards))
        /\ lastEvent' = Event("force_path", 0, 0, 0, NoFrame,
                              [force_path_req EXCEPT !.pc = "idle", !.polls = 0])
    /\ UNCHANGED <<descriptor, mac_to_port, topology_graph, datapaths, events>>
    /\ UNCHANGED <<agentVars, provVars, monVars>>

ForceSpPath ==
    /\ events < MaxEvents
    /\ force_path_req.pc = "idle"
    /\ \E req \in Requests :
        /\ Answer(force_sp_path_installation(req))
        /\ lastEvent' = Event("force_sp_path", 0, 0, 0, NoFrame, req)
    /\ events' = events + 1
    /\ UNCHANGED <<descriptor, mac_to_port, topology_graph, datapaths>>
    /\ UNCHANGED <<agentVars, provVars, monVars>>

\* the switches' clocks: an entry installed with a timeout is dropped by its switch
\* when the timeout runs out (hard_timeout seconds after the install at the latest),
\* and the controller asks for no flow-removed message.  One step is a period long
\* enough for every entry with a hard timeout to have gone
FlowExpiry ==
    /\ events < MaxEvents
    /\ force_path_req.pc = "idle"
    /\ \E r \in flow_table : r.hard_timeout # 0
    /\ flow_table' = {r \in flow_table : r.hard_timeout = 0}
    /\ events' = events + 1
    /\ lastEvent' = Event("flow_expiry", 0, 0, 0, NoFrame, NoRequest)
    /\ UNCHANGED <<descriptor, mac_to_port, topology_graph, datapaths, flow_stats,
                   existing_flows, force_path_req, sent, decisions, response>>
    /\ UNCHANGED <<agentVars, provVars, monVars>>

(***************************************************************************)
(* The agent service's requests and actions.                               *)
(***************************************************************************)
Data(src, dst, state, action, reward, next_state) ==
    [src |-> src, dst |-> dst, state |-> state, action |-> action, reward |-> reward,
     next_state |-> next_state]

NoData == Data(JNone, JNone, JNone, JNone, JNone, JNone)

\* a list one short of state_size
ShortState == JList([i \in 1..(state_size - 1) |-> 0])

JStates == {JNone, JStr("state"), ShortState} \cup {JList(v) : v \in StateVectors}

\* every src/dst case with a good state, every state case with a good src and dst
GetPathRequests ==
    {Data(p[1], p[2], JList([i \in 1..state_size |-> 0]), JNone, JNone, JNone) :
        p \in {<<JNone, JInt(4)>>, <<JInt(1), JNone>>, <<JInt(0), JInt(4)>>,
               <<JInt(1), JInt(1)>>, <<JInt(1), JInt(2)>>, <<JInt(4), JInt(1)>>}}
    \cup {Data(JInt(1), JInt(4), state, JNone, JNone, JNone) : state \in JStates}
    \cup {Data(JInt(1), JInt(2), ShortState, JNone, JNone, JNone), NoData}

\* an index get_path returns, a candidate path, a path that is no candidate
Actions == {JInt(0), JInt(1), JList(<<1, 2, 4>>), JList(<<4, 1>>)}

Ones == JList([i \in 1..state_size |-> 1])

\* every action and reward with good states, then every bad case of each field
UpdateRequests ==
    {Data(JNone, JNone, Ones, action, reward, Ones) :
        action \in Actions, reward \in {JInt(0), JInt(1)}}
    \cup {Data(JNone, JNone, state, JList(<<1, 2, 4>>), JInt(1), Ones) :
            state \in {JNone, JStr("state"), ShortState, JList(<<>>)}}
    \cup {Data(JNone, JNone, Ones, JList(<<1, 2, 4>>), JInt(1), state) :
            state \in JStates \ {Ones}}
    \cup {Data(JNone, JNone, Ones, JNone, JInt(1), Ones),
          Data(JNone, JNone, Ones, JList(<<1, 3, 4>>), JNone, Ones),
          Data(JNone, JNone, Ones, JList(<<1, 3, 4>>), JStr("high"), Ones),
          Data(JNone, JNone, Ones, JList(<<5, 6>>), JStr("high"), Ones)}

Served(route, data) == [route |-> route, data |-> data]

\* app.run serves each request in a thread of its own (werkzeug's threaded
\* server, Flask's default); two of them are modelled
Threads == {1, 2}

\* a thread's position in update(): "idle", "predict" (update_q_table has read
\* current_q and is evaluating next_max_q) or "done", with the request, the entry
\* and the table keys it has read, and its response
Worker(pc, data, current_q, keys, resp) ==
    [pc |-> pc, data |-> data, current_q |-> current_q, keys |-> keys, response |-> resp]

NoWorkers == [t \in Threads |-> Worker("idle", NoData, <<>>, {}, NoResponse)]

\* the agent process has not constructed its agent
AgentNone ==
    /\ agent = "None"
    /\ learning_rate = RInt(0)
    /\ discount_factor = RInt(0)
    /\ save_interval = 0
    /\ model = <<>>
    /\ q_table = <<>>
    /\ recent_rewards = <<>>
    /\ total_steps = 0
    /\ saved_models = {}
    /\ agent_req = Served("none", NoData)
    /\ agent_resp = NoResponse
    /\ workers = NoWorkers
    /\ config_file = <<>>
    /\ paths_file = FALSE
    /\ server = "down"

\* rl_config.json with the given values
Config(lr, gamma, si) ==
    [state_size |-> state_size, learning_rate |-> lr, discount_factor |-> gamma,
     save_interval |-> si]

\* the file with some of its keys only
Partial(config, keys) == [k \in keys |-> config[k]]

\* QLearningAgent.__init__ has run on a configuration and the server is listening
AgentInit ==
    /\ agent = "QLearningAgent"
    /\ learning_rate \in {<<1, 10>>, <<1, 2>>}
    /\ discount_factor \in {<<0, 1>>, <<9, 10>>}
    /\ save_interval \in {0, 2}
    /\ model \in [StateVectors -> {<<-1, 1>>, <<1, 2>>}]
    /\ q_table = initialize_q_table
    /\ recent_rewards = <<>>
    /\ total_steps = 0
    /\ saved_models = {}
    /\ agent_req = Served("none", NoData)
    /\ agent_resp = NoResponse
    /\ workers = NoWorkers
    /\ config_file = <<Config(learning_rate, discount_factor, save_interval)>>
    /\ paths_file = TRUE
    /\ server = "listening"

\* the agent process is about to run __main__ on the files it finds: any complete
\* configuration, one configuration with any of its keys missing, or no file
AgentStart ==
    /\ agent = "None"
    /\ learning_rate = RInt(0)
    /\ discount_factor = RInt(0)
    /\ save_interval = 0
    /\ model = <<>>
    /\ q_table = <<>>
    /\ recent_rewards = <<>>
    /\ total_steps = 0
    /\ saved_models = {}
    /\ agent_req = Served("none", NoData)
    /\ agent_resp = NoResponse
    /\ workers = NoWorkers
    /\ config_file \in {<<>>}
            \cup {<<Config(lr, gamma, si)>> :
                    lr \in {<<1, 10>>, <<1, 2>>}, gamma \in {<<0, 1>>, <<9, 10>>}, si \in {0, 2}}
            \cup {<<Partial(Config(<<1, 10>>, <<9, 10>>, 2), keys)>> : keys \in SUBSET required_keys}
    /\ paths_file \in BOOLEAN
    /\ server = "down"

\* __main__: the agent is constructed from the files and the server started, or the
\* exception of the construction ends the process
Main ==
    /\ server = "down"
    /\ server' = ServerAfter(QLearningAgent_init(config_file, paths_file))
    /\ IF QLearningAgent_init(config_file, paths_file) = "none"
       THEN /\ agent' = "QLearningAgent"
            /\ learning_rate' = config_file[1].learning_rate
            /\ discount_factor' = config_file[1].discount_factor
            /\ save_interval' = config_file[1].save_interval
            /\ model' \in [StateVectors -> {<<-1, 1>>, <<1, 2>>}]
            /\ q_table' = initialize_q_table
       ELSE UNCHANGED <<agent, learning_rate, discount_factor, save_interval, model, q_table>>
    /\ UNCHANGED <<recent_rewards, total_steps, saved_models, agent_req, agent_resp,
                   workers, config_file, paths_file>>
    /\ UNCHANGED <<ctlVars, provVars, monVars>>

\* what /get_path leaves behind: r is [q_table, response]
AfterGetPath(r) ==
    /\ q_table' = r.q_table
    /\ agent_resp' = r.response

\* what /update leaves behind: r is [a, response]
AfterUpdate(r) ==
    /\ q_table' = r.a.q_table
    /\ recent_rewards' = r.a.recent_rewards
    /\ total_steps' = r.a.total_steps
    /\ saved_models' = r.a.saved_models
    /\ agent_resp' = r.response

GetPath ==
    /\ server = "listening"
    /\ agent = "QLearningAgent"
    /\ \E data \in GetPathRequests :
        /\ AfterGetPath(get_path(q_table, model, data))
        /\ agent_req' = Served("get_path", data)
    /\ UNCHANGED <<agent, learning_rate, discount_factor, save_interval, model,
                   recent_rewards, total_steps, saved_models, workers>>
    /\ UNCHANGED <<ctlVars, provVars, monVars, startVars>>

Update ==
    /\ server = "listening"
    /\ agent = "QLearningAgent"
    /\ total_steps < MaxSteps
    /\ \E data \in UpdateRequests, save_ok \in BOOLEAN :
        /\ AfterUpdate(update(Learner, learning_rate, discount_factor, save_interval, model,
                              data, save_ok))
        /\ agent_req' = Served("update", data)
    /\ UNCHANGED <<agent, learning_rate, discount_factor, save_interval, model, workers>>
    /\ UNCHANGED <<ctlVars, provVars, monVars, startVars>>

Stats ==
    /\ server = "listening"
    /\ agent = "QLearningAgent"
    /\ agent_resp' = stats(Learner)
    /\ agent_req' = Served("stats", NoData)
    /\ UNCHANGED <<agent, learning_rate, discount_factor, save_interval, model, q_table,
                   recent_rewards, total_steps, saved_models, workers>>
    /\ UNCHANGED <<ctlVars, provVars, monVars, startVars>>

\* /update bodies that two clients may send at the same time: a path's entry with
\* either reward, another path's entry, and the index 0, which the checks reject
ConcurrentUpdates ==
    {Data(JNone, JNone, Ones, JList(<<1, 2, 4>>), JInt(0), Ones),
     Data(JNone, JNone, Ones, JList(<<1, 2, 4>>), JInt(1), Ones),
     Data(JNone, JNone, Ones, JList(<<4, 1>>), JInt(1), Ones),
     Data(JNone, JNone, Ones, JInt(0), JInt(1), Ones)}

\* update() up to the evaluation of next_max_q: the checks of lines 174-184, then
\* update_q_table's lines 101-107, which create the entry and read current_q
UpdateEnter(t, data, checked) ==
    IF checked.response.status = 400
    THEN /\ workers' = [workers EXCEPT
                            ![t] = Worker("done", data, <<>>, {}, checked.response)]
         /\ UNCHANGED q_table
    ELSE /\ q_table' = WithEntry(q_table, StrOf(data.action))
         /\ workers' = [workers EXCEPT
                            ![t] = Worker("predict", data,
                                          WithEntry(q_table, StrOf(data.action))[StrOf(data.action)],
                                          DOMAIN WithEntry(q_table, StrOf(data.action)),
                                          NoResponse)]

UpdateBegin ==
    /\ server = "listening"
    /\ agent = "QLearningAgent"
    /\ \E t \in Threads, data \in ConcurrentUpdates :
        /\ workers[t].pc = "idle"
        /\ UpdateEnter(t, data, update(Learner, learning_rate, discount_factor, save_interval,
                                       model, data, TRUE))
    /\ UNCHANGED <<agent, learning_rate, discount_factor, save_interval, model,
                   recent_rewards, total_steps, saved_models, agent_req, agent_resp>>
    /\ UNCHANGED <<ctlVars, provVars, monVars, startVars>>

\* update_q_table from line 110 on, in thread t: the blend of the current_q the
\* thread read, stored into the table as it is now
UpdateStore(t, r) ==
    /\ AfterUpdate(r)
    /\ workers' = [workers EXCEPT ![t].pc = "done", ![t].response = r.response]

\* the list comprehension of line 108 iterates self.q_table while it calls
\* model.predict: if another thread has added a key meanwhile, the iteration either
\* raises RuntimeError (dictionary changed size during iteration) or had ended
UpdateFinish ==
    /\ \E t \in Threads :
        /\ workers[t].pc = "predict"
        /\ \E raised \in IF DOMAIN q_table = workers[t].keys THEN {FALSE} ELSE BOOLEAN :
              UpdateStore(t,
                  IF raised
                  THEN [a |-> Learner, response |-> ErrorReply(500, "RuntimeError")]
                  ELSE UpdateReply(
                          Blended(Learner,
                                  [q_table EXCEPT ![StrOf(workers[t].data.action)] =
                                                      workers[t].current_q],
                                  StrOf(workers[t].data.action), learning_rate,
                                  discount_factor, save_interval, workers[t].data.reward,
                                  model[workers[t].data.next_state.val], TRUE)))
    /\ UNCHANGED <<agent, learning_rate, discount_factor, save_interval, model, agent_req>>
    /\ UNCHANGED <<ctlVars, provVars, monVars, startVars>>

AgentNext ==
    \/ GetPath
    \/ Update
    \/ Stats

(***************************************************************************)
(* The provisioner's actions: one per step of run_topology.                *)
(***************************************************************************)
\* no provisioner runs
ProvNone ==
    /\ prov_pc = "none"
    /\ topo_type = "linear"
    /\ grid_size = 1
    /\ topology_info = <<>>
    /\ run_log = <<>>
    /\ elapsed = 0
    /\ seed = NoSeed
    /\ force_reqs = 0
    /\ failed_reqs = 0
    /\ seeded = {}

\* run_topology(topo_type, grid_size) has been called
ProvInit ==
    /\ prov_pc = "start"
    /\ topo_type \in TopoArgs
    /\ grid_size \in 1..MaxGridSize
    /\ topology_info = <<>>
    /\ run_log = <<>>
    /\ elapsed = 0
    /\ seed = NoSeed
    /\ force_reqs = 0
    /\ failed_reqs = 0
    /\ seeded = {}

\* the step of run_topology that leaves pc at next and logs what it did
Step(next, done) ==
    /\ prov_pc' = next
    /\ run_log' = Append(run_log, done)

\* "topo = LinearTopo()" / "topo = GridTopo(size=grid_size)" / "return"
BuildTopo ==
    /\ prov_pc = "start"
    /\ topology_info' = WrittenBy(topo_type, grid_size)
    /\ IF topo_type \in {"linear", "grid"} THEN Step("built", "build")
       ELSE Step("returned", "invalid")
    /\ UNCHANGED <<topo_type, grid_size, elapsed, seed, force_reqs, failed_reqs, seeded>>
    /\ UNCHANGED <<ctlVars, agentVars, monVars>>

\* "if not check_controller_connection(): return"
CheckController ==
    /\ prov_pc = "built"
    /\ \E reachable \in BOOLEAN :
        Step(AfterCheck(reachable), IF reachable THEN "check_ok" ELSE "check_failed")
    /\ UNCHANGED <<topo_type, grid_size, topology_info, elapsed, seed, force_reqs,
                   failed_reqs, seeded>>
    /\ UNCHANGED <<ctlVars, agentVars, monVars>>

\* "net = Mininet(...)", "net.start()", "time.sleep(15)"
NetStart ==
    /\ prov_pc = "checked"
    /\ Step("started", "net_start")
    /\ UNCHANGED <<topo_type, grid_size, topology_info, elapsed, seed, force_reqs,
                   failed_reqs, seeded>>
    /\ UNCHANGED <<ctlVars, agentVars, monVars>>

\* "install_tools(net)"
InstallTools ==
    /\ prov_pc = "started"
    /\ Step("probe", "install_tools")
    /\ UNCHANGED <<topo_type, grid_size, topology_info, elapsed, seed, force_reqs,
                   failed_reqs, seeded>>
    /\ UNCHANGED <<ctlVars, agentVars, monVars>>

\* trigger_initial_flows, one pass of "while time.time() - start_time < 30": a probe
\* that fails costs its time (at most the timeout of 2 s) and one second of sleep;
\* the clock is a local of the loop and is not kept once the loop is left
Probe ==
    /\ prov_pc = "probe"
    /\ IF elapsed < ready_window
       THEN \E ok \in BOOLEAN, cost \in 1..3 :
                IF ok THEN /\ Step("seed", "ready")
                           /\ seed' = AfterAttempt(0, 0, 0, TRUE)
                           /\ elapsed' = 0
                ELSE /\ elapsed' = elapsed + cost
                     /\ UNCHANGED <<prov_pc, run_log, seed>>
       ELSE /\ Step("ping", "not_ready")
            /\ elapsed' = 0
            /\ UNCHANGED seed
    /\ UNCHANGED <<topo_type, grid_size, topology_info, force_reqs, failed_reqs, seeded>>
    /\ UNCHANGED <<ctlVars, agentVars, monVars>>

\* trigger_initial_flows, one pass of "for attempt in range(max_retries)": one
\* POST /force_path and what follows from its outcome
SeedRequest ==
    /\ prov_pc = "seed"
    /\ \E ok \in BOOLEAN :
        /\ force_reqs' = force_reqs + 1
        /\ failed_reqs' = failed_reqs + (IF ok THEN 0 ELSE 1)
        /\ seeded' = seeded \cup {<<IpOf(seed.i), IpOf(seed.j)>>}
        /\ seed' = AfterAttempt(seed.i, seed.j, seed.attempt, ok)
        /\ IF AfterAttempt(seed.i, seed.j, seed.attempt, ok).i > 4
           THEN Step("ping", "seeded")
           ELSE UNCHANGED <<prov_pc, run_log>>
    /\ UNCHANGED <<topo_type, grid_size, topology_info, elapsed>>
    /\ UNCHANGED <<ctlVars, agentVars, monVars>>

\* "net.pingAll()"
PingAll ==
    /\ prov_pc = "ping"
    /\ Step("cli", "pingall")
    /\ UNCHANGED <<topo_type, grid_size, topology_info, elapsed, seed, force_reqs,
                   failed_reqs, seeded>>
    /\ UNCHANGED <<ctlVars, agentVars, monVars>>

\* "CLI(net)"
Cli ==
    /\ prov_pc = "cli"
    /\ Step("stop", "cli")
    /\ UNCHANGED <<topo_type, grid_size, topology_info, elapsed, seed, force_reqs,
                   failed_reqs, seeded>>
    /\ UNCHANGED <<ctlVars, agentVars, monVars>>

\* "net.stop()"
NetStop ==
    /\ prov_pc = "stop"
    /\ Step("done", "net_stop")
    /\ UNCHANGED <<topo_type, grid_size, topology_info, elapsed, seed, force_reqs,
                   failed_reqs, seeded>>
    /\ UNCHANGED <<ctlVars, agentVars, monVars>>

(***************************************************************************)
(* The monitor's actions: main() and one step of a poller thread.          *)
(***************************************************************************)
\* no monitor process
MonNone ==
    /\ mon_pc = "none"
    /\ running = FALSE
    /\ pollers = <<>>
    /\ switch_stats = EmptyDict
    /\ bridge_flows = EmptyDict
    /\ network_metrics = <<>>
    /\ performance_metrics = NoSamples
    /\ traffic_results = <<>>
    /\ dumped = EmptyDict
    /\ summary = <<>>
    /\ mon_log = <<>>
    /\ polls = 0

\* main() has constructed its NetworkMonitor
MonInit ==
    /\ mon_pc = "main"
    /\ running = FALSE
    /\ pollers = <<>>
    /\ switch_stats = EmptyDict
    /\ bridge_flows = EmptyDict
    /\ network_metrics = <<>>
    /\ performance_metrics = NoSamples
    /\ traffic_results = <<>>
    /\ dumped = EmptyDict
    /\ summary = <<>>
    /\ mon_log = <<>>
    /\ polls = 0

\* main(): monitor.start_monitoring()
StartMonitoring ==
    /\ mon_pc = "main"
    /\ mon_pc' = "loop"
    /\ running' = TRUE
    /\ pollers' = start_monitoring(running, pollers)
    /\ UNCHANGED <<switch_stats, bridge_flows, network_metrics, performance_metrics,
                   traffic_results, dumped, summary, mon_log, polls>>
    /\ UNCHANGED <<ctlVars, agentVars, provVars>>

\* main(), one turn of "while True": the summary, and the plots when a minute has passed
MainLoop ==
    /\ mon_pc = "loop"
    /\ polls < MaxPolls
    /\ polls' = polls + 1
    /\ summary' = <<get_monitoring_summary(running, switch_stats, network_metrics,
                                           performance_metrics)>>
    /\ \E due \in BOOLEAN, matplotlib \in BOOLEAN :
        mon_log' = IF due THEN mon_log \o create_monitoring_plots(traffic_results, matplotlib)
                   ELSE mon_log
    /\ UNCHANGED <<mon_pc, running, pollers, switch_stats, bridge_flows, network_metrics,
                   performance_metrics, traffic_results, dumped>>
    /\ UNCHANGED <<ctlVars, agentVars, provVars>>

\* KeyboardInterrupt in the loop of main(): the finally block's monitor.stop_monitoring()
Interrupt ==
    /\ mon_pc = "loop"
    /\ mon_pc' = "finally"
    /\ running' = FALSE
    /\ mon_log' = Append(mon_log, "stop")
    /\ UNCHANGED <<pollers, switch_stats, bridge_flows, network_metrics, performance_metrics,
                   traffic_results, dumped, summary, polls>>
    /\ UNCHANGED <<ctlVars, agentVars, provVars>>

\* the rest of the finally block: create_monitoring_plots(), the two prints, and main()
\* returns, which ends the daemon threads
FinalPlots ==
    /\ mon_pc = "finally"
    /\ mon_pc' = "exited"
    /\ \E matplotlib \in BOOLEAN :
        mon_log' = mon_log \o create_monitoring_plots(traffic_results, matplotlib)
    /\ UNCHANGED <<running, pollers, switch_stats, bridge_flows, network_metrics,
                   performance_metrics, traffic_results, dumped, summary, polls>>
    /\ UNCHANGED <<ctlVars, agentVars, provVars>>

\* most threads a NetworkMonitor is followed to
MaxThreads == 10

\* a caller of the NetworkMonitor other than main(): monitor.start_monitoring()
CallStart ==
    /\ mon_pc = "main"
    /\ ~running => Len(pollers) + 5 <= MaxThreads
    /\ running' = TRUE
    /\ pollers' = start_monitoring(running, pollers)
    /\ UNCHANGED <<mon_pc, switch_stats, bridge_flows, network_metrics, performance_metrics,
                   traffic_results, dumped, summary, mon_log, polls>>
    /\ UNCHANGED <<ctlVars, agentVars, provVars>>

\* a caller of the NetworkMonitor other than main(): monitor.stop_monitoring()
CallStop ==
    /\ mon_pc = "main"
    /\ running
    /\ running' = FALSE
    /\ UNCHANGED <<mon_pc, pollers, switch_stats, bridge_flows, network_metrics,
                   performance_metrics, traffic_results, dumped, summary, mon_log, polls>>
    /\ UNCHANGED <<ctlVars, agentVars, provVars>>

\* iterations a monitor driven by its caller is followed for
MaxTurns == 1

\* a loop that does not read the flag
LoopCheck_blind(budget) ==
    \E k \in 1..Len(pollers) :
        /\ mon_pc # "exited"
        /\ pollers[k].at = "check"
        /\ polls < budget
        /\ pollers' = [pollers EXCEPT ![k].at = "body"]
        /\ polls' = polls + 1
        /\ UNCHANGED <<mon_pc, running, switch_stats, bridge_flows, network_metrics,
                       performance_metrics, traffic_results, dumped, summary, mon_log>>
        /\ UNCHANGED <<ctlVars, agentVars, provVars>>

\* thread k is at "while self.running"; the threads begin budget iterations at most
LoopCheck(budget) ==
    \E k \in 1..Len(pollers) :
        /\ mon_pc # "exited"
        /\ pollers[k].at = "check"
        /\ running => polls < budget
        /\ pollers' = [pollers EXCEPT ![k].at = IF running THEN "body" ELSE "done"]
        /\ polls' = IF running THEN polls + 1 ELSE polls
        /\ UNCHANGED <<mon_pc, running, switch_stats, bridge_flows, network_metrics,
                       performance_metrics, traffic_results, dumped, summary, mon_log>>
        /\ UNCHANGED <<ctlVars, agentVars, provVars>>

\* "while self.running" in a run of main()
PollerCheck == LoopCheck(MaxPolls)

\* "while self.running" in a monitor driven by its caller
CallerCheck == LoopCheck(MaxTurns)

\* thread k is in the body of the loop of the target
InBody(k, target) ==
    /\ mon_pc # "exited"
    /\ pollers[k].target = target
    /\ pollers[k].at = "body"
    /\ pollers' = [pollers EXCEPT ![k].at = "check"]

\* what the two ovs-ofctl calls of _collect_bridge_stats give for a bridge: <<>> for a
\* call that failed, else <<its stdout>>
DumpResults ==
    {[ports |-> <<>>, flows |-> <<>>],
     [ports |-> <<port_line>>, flows |-> <<flow_lines>>],
     [ports |-> <<rx_lines>>, flows |-> <<>>]}

\* what "ovs-vsctl list-br" prints in an iteration: nothing when it fails
Listings == {<<>>, one_bridge, two_bridges}

\* the bridges of a listing
BridgesIn(stdout) == SelectSeq(Split(Strip(stdout), <<"\n">>), LAMBDA b : Strip(b) # <<>>)

\* the parsers on the texts the tools print here, computed once
Bridges == [stdout \in Listings |-> BridgesIn(stdout)]
PortStats == [stdout \in {port_line, rx_lines} |-> _parse_port_stats(stdout)]
FlowStats == [stdout \in {flow_lines} |-> _parse_flow_stats(stdout)]
PingLatency == [stdout \in {ping_reply} |-> _parse_ping_latency(stdout)]

\* NetworkMonitor._collect_bridge_stats for the bridges of the list from the i-th on
RECURSIVE CollectBridges(_, _, _, _, _)
CollectBridges(bridges, results, i, sstats, texts) ==
    IF i > Len(bridges) THEN [switch_stats |-> sstats, dumped |-> texts]
    ELSE IF results[i].ports = <<>> THEN CollectBridges(bridges, results, i + 1, sstats, texts)
    ELSE CollectBridges(bridges, results, i + 1,
            Put(sstats, bridges[i],
                [ports |-> PortStats[results[i].ports[1]], timestamp |-> "time"]),
            Put(texts, bridges[i], results[i].ports[1]))

RECURSIVE CollectFlows(_, _, _, _)
CollectFlows(bridges, results, i, flows) ==
    IF i > Len(bridges) THEN flows
    ELSE IF results[i].flows = <<>> THEN CollectFlows(bridges, results, i + 1, flows)
    ELSE CollectFlows(bridges, results, i + 1,
                      Put(flows, bridges[i], FlowStats[results[i].flows[1]]))

\* one iteration of _monitor_ovs_switches
MonitorOvs ==
    \E k \in 1..Len(pollers) :
        /\ InBody(k, "_monitor_ovs_switches")
        /\ \E listing \in Listings :
           \E results \in [1..Len(Bridges[listing]) -> DumpResults] :
            /\ switch_stats' = CollectBridges(Bridges[listing], results, 1, switch_stats, dumped).switch_stats
            /\ dumped' = CollectBridges(Bridges[listing], results, 1, switch_stats, dumped).dumped
            /\ bridge_flows' = CollectFlows(Bridges[listing], results, 1, bridge_flows)
        /\ UNCHANGED <<mon_pc, running, network_metrics, performance_metrics, traffic_results,
                       summary, mon_log, polls>>
        /\ UNCHANGED <<ctlVars, agentVars, provVars>>

\* one iteration of _monitor_system_resources
MonitorSystem ==
    \E k \in 1..Len(pollers) :
        /\ InBody(k, "_monitor_system_resources")
        /\ \E reading \in SystemReadings : switch_stats' = Put(switch_stats, s_system, reading)
        /\ UNCHANGED <<mon_pc, running, bridge_flows, network_metrics, performance_metrics,
                       traffic_results, dumped, summary, mon_log, polls>>
        /\ UNCHANGED <<ctlVars, agentVars, provVars>>

\* one iteration of _collect_network_metrics
CollectMetrics ==
    \E k \in 1..Len(pollers) :
        /\ InBody(k, "_collect_network_metrics")
        /\ network_metrics' = DequeAppend(network_metrics, network_state(switch_stats), 1000)
        /\ performance_metrics' =
            [performance_metrics EXCEPT
                !.throughput_samples = DequeAppend(@, network_state(switch_stats).avg_throughput, 100),
                !.packet_loss_samples = DequeAppend(@, network_state(switch_stats).avg_packet_loss, 100)]
        /\ UNCHANGED <<mon_pc, running, switch_stats, bridge_flows, traffic_results, dumped,
                       summary, mon_log, polls>>
        /\ UNCHANGED <<ctlVars, agentVars, provVars>>

\* one iteration of _save_periodic_data: _save_statistics, then _save_performance_report
SavePeriodicData ==
    \E k \in 1..Len(pollers) :
        /\ InBody(k, "_save_periodic_data")
        /\ \E rl_stats \in RlReplies :
            traffic_results' = <<_generate_performance_report(switch_stats, bridge_flows,
                                    network_metrics, performance_metrics, rl_stats)>>
        /\ mon_log' = mon_log \o <<"statistics", "report">>
        /\ UNCHANGED <<mon_pc, running, switch_stats, bridge_flows, network_metrics,
                       performance_metrics, dumped, summary, polls>>
        /\ UNCHANGED <<ctlVars, agentVars, provVars>>

\* the latency a ping adds to the series: none when it failed, was not parsed or is 0
RECURSIVE PingAll3(_, _, _)
PingAll3(replies, i, samples) ==
    IF i > Len(replies) THEN samples
    ELSE IF replies[i] = <<>> \/ PingLatency[replies[i][1]] = <<>>
    THEN PingAll3(replies, i + 1, samples)
    ELSE IF PingLatency[replies[i][1]][1] = RInt(0) THEN PingAll3(replies, i + 1, samples)
    ELSE PingAll3(replies, i + 1, DequeAppend(samples, PingLatency[replies[i][1]][1], 100))

\* one iteration of _monitor_connectivity: the three pings
MonitorConnectivity ==
    \E k \in 1..Len(pollers) :
        /\ InBody(k, "_monitor_connectivity")
        /\ \E replies \in [1..3 -> {<<>>, <<ping_reply>>}] :
            performance_metrics' =
                [performance_metrics EXCEPT !.latency_samples = PingAll3(replies, 1, @)]
        /\ UNCHANGED <<mon_pc, running, switch_stats, bridge_flows, network_metrics,
                       traffic_results, dumped, summary, mon_log, polls>>
        /\ UNCHANGED <<ctlVars, agentVars, provVars>>

\* an exception raised inside the try of thread k's iteration before it stored
\* anything: "except Exception" logs it, and the sleep and the next check follow
PollerRaise ==
    \E k \in 1..Len(pollers) :
        /\ mon_pc # "exited"
        /\ pollers[k].at = "body"
        /\ pollers' = [pollers EXCEPT ![k].at = "check"]
        /\ UNCHANGED <<mon_pc, running, switch_stats, bridge_flows, network_metrics,
                       performance_metrics, traffic_results, dumped, summary, mon_log, polls>>
        /\ UNCHANGED <<ctlVars, agentVars, provVars>>

\* a NetworkMonitor whose caller starts and stops it at will, and its threads
LifecycleNext ==
    \/ CallStart
    \/ CallStop
    \/ CallerCheck
    \/ PollerRaise
    \/ MonitorOvs
    \/ MonitorSystem
    \/ CollectMetrics
    \/ SavePeriodicData
    \/ MonitorConnectivity

MonNext ==
    \/ StartMonitoring
    \/ MainLoop
    \/ Interrupt
    \/ FinalPlots
    \/ PollerCheck
    \/ MonitorOvs
    \/ MonitorSystem
    \/ CollectMetrics
    \/ SavePeriodicData
    \/ MonitorConnectivity

ProvNext ==
    \/ BuildTopo
    \/ CheckController
    \/ NetStart
    \/ InstallTools
    \/ Probe
    \/ SeedRequest
    \/ PingAll
    \/ Cli
    \/ NetStop

CtlNext ==
    \/ WriteDescriptor
    \/ SwitchFeatures
    \/ PortStatus
    \/ PacketIn
    \/ ForcePath
    \/ ForcePathPoll
    \/ ForceSpPath

vars == <<ctlVars, agentVars, provVars, monVars>>

Init == CtlInit /\ AgentNone /\ ProvNone /\ MonNone

\* the controller, its switches and its clients
Spec == Init /\ [][CtlNext]_vars

\* the controller together with the switches' rule expiry
SpecExpiry == Init /\ [][CtlNext \/ FlowExpiry]_vars

InitAgent == CtlInit /\ AgentInit /\ ProvNone /\ MonNone

\* the agent service and its clients
SpecAgent == InitAgent /\ [][AgentNext]_vars

\* the agent service with two request threads inside update()
SpecThreads == InitAgent /\ [][UpdateBegin \/ UpdateFinish]_vars

InitStart == CtlInit /\ AgentStart /\ ProvNone /\ MonNone

\* the agent process from its start
SpecStart == InitStart /\ [][Main \/ AgentNext]_vars

\* the controller and an agent service of one configuration, both started
InitClosed ==
    /\ CtlInit
    /\ AgentInit
    /\ learning_rate = <<1, 2>>
    /\ discount_factor = <<9, 10>>
    /\ save_interval = 2
    /\ model = [v \in StateVectors |-> <<1, 2>>]
    /\ ProvNone
    /\ MonNone

\* the closed system with a client that posts to /update
ClosedNext_learning ==
    \/ WriteDescriptor
    \/ SwitchFeatures
    \/ PacketIn
    \/ GetPath
    \/ Stats
    \/ Update

\* the agent's routes its clients in this repository request: POST /get_path
\* (the controller's _request_path_from_rl_agent) and GET /stats (the controller's
\* _get_current_network_state, the monitor's _generate_performance_report), beside
\* the controller's own events; the provisioner requests nothing of the agent
ClosedNext ==
    \/ WriteDescriptor
    \/ SwitchFeatures
    \/ PacketIn
    \/ GetPath
    \/ Stats

\* the agent with the repository's programs as its only clients
SpecClosed == InitClosed /\ [][ClosedNext]_vars

InitProv == CtlInit /\ AgentNone /\ ProvInit /\ MonNone

\* one run of the provisioner
SpecProv == InitProv /\ [][ProvNext]_vars

\* one run of the provisioner whose readiness loop and seeding loops keep running:
\* they are straight-line code of the one thread of run_topology, and each request
\* they issue returns or raises within its timeout
SpecSeeding == InitProv /\ [][ProvNext]_vars /\ WF_vars(Probe) /\ WF_vars(SeedRequest)

InitMonitor == CtlInit /\ AgentNone /\ ProvNone /\ MonInit

\* one run of the monitor
SpecMonitor == InitMonitor /\ [][MonNext]_vars

\* a step of a thread of the monitor
PollerNext ==
    \/ CallerCheck
    \/ MonitorOvs
    \/ MonitorSystem
    \/ CollectMetrics
    \/ SavePeriodicData
    \/ MonitorConnectivity

\* while a thread of the monitor can run, one does: the threads are scheduled by the
\* interpreter, and the blocking calls of an iteration (subprocess.run,
\* requests.get, time.sleep) return within their timeouts
PollersFair == WF_vars(PollerNext)

\* a NetworkMonitor started and stopped by its caller
SpecLifecycle == InitMonitor /\ [][LifecycleNext]_vars /\ PollersFair

\* the samples get_current_network_state is applied to: averages below, at and above the
\* three scales, whole and fractional
Samples ==
    {[timestamp |-> "time", avg_throughput |-> t, avg_packet_loss |-> l,
      num_active_switches |-> n, total_switches |-> n] :
        t \in {<<0, 1>>, <<1, 2>>, <<456, 1>>, <<999999999, 1>>, <<1000000000, 1>>,
               <<2000000001, 2>>, <<2000000000, 1>>},
        l \in {<<0, 1>>, <<1, 2>>, <<999, 1>>, <<1000, 1>>, <<2001, 2>>, <<5000, 1>>},
        n \in {0, 1, 99, 100, 101, 225}}

\* main() is in its loop and the latest sample of network_metrics is any of Samples, or
\* there is none yet
MonSampled ==
    /\ mon_pc = "loop"
    /\ running = TRUE
    /\ pollers = start_monitoring(FALSE, <<>>)
    /\ switch_stats = EmptyDict
    /\ bridge_flows = EmptyDict
    /\ network_metrics \in {<<>>} \cup {<<sample>> : sample \in Samples}
    /\ performance_metrics = NoSamples
    /\ traffic_results = <<>>
    /\ dumped = EmptyDict
    /\ summary = <<>>
    /\ mon_log = <<>>
    /\ polls = 0

InitState == CtlInit /\ AgentNone /\ ProvNone /\ MonSampled

\* the state function, called by the summaries of main()
SpecState == InitState /\ [][MainLoop]_vars

(***************************************************************************)
(* Properties of the controller, checked under Spec.                       *)
(***************************************************************************)
\* installs tried in every reachable state: the two defaults and a path hop
C1_Installs ==
    {[priority |-> 0, match |-> OFPMatch(0, "", "", 0),
      actions |-> <<OFPActionOutput(OFPP_CONTROLLER, OFPCML_NO_BUFFER)>>],
     [priority |-> 5, match |-> OFPMatch(ETH_TYPE_ARP, "", "", 0),
      actions |-> <<OFPActionOutput(OFPP_FLOOD, OFPCML_MAX)>>],
     [priority |-> 10, match |-> OFPMatch(ETH_TYPE_IP, IpOf(1), IpOf(4), IPPROTO_TCP),
      actions |-> <<OFPActionOutput(2, OFPCML_MAX)>>]}

C1_Call(c, dp, inst, priority, idle_timeout, hard_timeout) ==
    add_flow(c, dp, priority, inst.match, inst.actions, idle_timeout, hard_timeout)

\* c1 is the state after a call of key `key` from c, c2 the state after a second
\* call with the same key from c1
C1_Deduplicated(c, key, c1, c2) ==
    /\ key \in c.existing_flows => c1 = c
    /\ key \notin c.existing_flows =>
          /\ c1.count = c.count + 1
          /\ Len(c1.sent) = Len(c.sent) + 1
          /\ Len(c1.flows) = Len(c.flows) + 1
    /\ c2.sent = c1.sent
    /\ c2.flows = c1.flows
    /\ c2.count = c1.count
    /\ c2.count <= c.count + 1

\* C1: in every reachable state, an add_flow call whose key (dpid, match, actions)
\* was used by an earlier call sends no flow-mod, appends no FlowRecord and leaves
\* the count unchanged, so that the same install issued twice (even with another
\* priority or other timeouts) raises the count by exactly 1
C1_FlowDedup ==
    \A dp \in ConnectDpids, inst \in C1_Installs :
        C1_Deduplicated(Running,
                        <<dp, StrMatch(inst.match), StrActions(inst.actions)>>,
                        C1_Call(Running, dp, inst, inst.priority, 120, 300),
                        C1_Call(C1_Call(Running, dp, inst, inst.priority, 120, 300),
                                dp, inst, inst.priority + 1, 0, 0))

\* a switch has connected twice: the second connect repeated both default installs,
\* nothing was sent for them and the count stands at the two distinct keys
C1_Witness ==
    /\ lastEvent.type = "switch_features"
    /\ events = 2
    /\ Cardinality(datapaths) = 1
    /\ sent = <<>>
    /\ flow_stats.count = 2
    /\ Len(flow_stats.flows) = 2

\* the nodes within k hops of s
RECURSIVE C2_Ball(_, _, _)
C2_Ball(g, s, k) ==
    IF k <= 0 THEN (IF k = 0 THEN {s} ELSE {})
    ELSE LET inner == C2_Ball(g, s, k - 1)
         IN inner \cup {n \in Nodes(g) : \E m \in inner : HasEdge(g, m, n)}

\* p is a path of g from s to t, and t is not within fewer hops of s
C2_IsShortestPath(g, p, s, t) ==
    /\ p # <<>>
    /\ p[1] = s /\ p[Len(p)] = t
    /\ \A i \in 1..Len(p) : p[i] \in Nodes(g)
    /\ \A i \in 1..(Len(p) - 1) : HasEdge(g, p[i], p[i + 1])
    /\ t \notin C2_Ball(g, s, Len(p) - 2)

\* the graph a selection of the last handler worked on is the live graph: the
\* graph the handler left, with, for a reroute, the edges it removed afterwards
C2_LiveGraph(d) ==
    IF d.site = "reroute"
    THEN /\ Nodes(d.graph) = Nodes(topology_graph)
         /\ Edges(topology_graph) \subseteq Edges(d.graph)
         /\ \A e \in Edges(d.graph) \ Edges(topology_graph) :
               lastEvent.dpid \in e /\ d.graph.port[e] = lastEvent.port_no
    ELSE d.graph = topology_graph

\* C2: at every site (packet-in, reroute, force_path without an explicit path), a
\* selection whose agent request gave no path chose the hop-count shortest path
\* between the same two switches in the live graph, or no path where the graph has
\* none; where it raised instead, an end switch is not a node of the graph
C2_FallbackIsShortest ==
    \A i \in 1..Len(decisions) :
        decisions[i].agent_path = <<>> =>
            /\ C2_LiveGraph(decisions[i])
            /\ decisions[i].exc = "none" /\ decisions[i].path # <<>> =>
                  C2_IsShortestPath(decisions[i].graph, decisions[i].path,
                                    decisions[i].src_switch, decisions[i].dst_switch)
            /\ decisions[i].exc = "none" /\ decisions[i].path = <<>> =>
                  decisions[i].dst_switch \notin
                      C2_Ball(decisions[i].graph, decisions[i].src_switch,
                              Cardinality(Nodes(decisions[i].graph)))
            /\ decisions[i].exc # "none" =>
                  \/ decisions[i].src_switch \notin Nodes(decisions[i].graph)
                  \/ decisions[i].dst_switch \notin Nodes(decisions[i].graph)

\* a reroute fell back after a link of the shortest path had gone: the path it
\* chose has more hops than the descriptor's shortest path
C2_Witness ==
    \E i \in 1..Len(decisions) :
        /\ decisions[i].site = "reroute"
        /\ decisions[i].agent_path = <<>>
        /\ decisions[i].exc = "none"
        /\ Len(decisions[i].path) >= 3

\* C3: every non-ARP packet-in is answered with exactly one packet-out, to the
\* originating switch
C3_PacketNeverDropped ==
    lastEvent.type = "packet_in" /\ lastEvent.frame.ethertype # ETH_TYPE_ARP =>
        /\ Cardinality(PacketOuts(sent)) = 1
        /\ \A i \in PacketOuts(sent) : sent[i].dpid = lastEvent.dpid

\* one step of the port-status handler
C4_Step ==
    lastEvent'.type = "port_status" /\ events' = events + 1 =>
        /\ \A i \in 1..Len(decisions') :
              /\ decisions'[i].site = "reroute"
              /\ \E j \in 1..Len(flow_stats.flows) :
                    /\ flow_stats.flows[j].dpid = lastEvent'.dpid
                    /\ flow_stats.flows[j].src_ip = decisions'[i].src_ip
                    /\ flow_stats.flows[j].dst_ip = decisions'[i].dst_ip
        /\ IsPrefix(flow_stats.flows, flow_stats'.flows)

\* C4: a port event for dpid D recomputes paths only for (src_ip, dst_ip) pairs of
\* FlowRecords whose dpid is D, and no recorded FlowRecord is removed or changed
C4_RerouteScope == [][C4_Step]_vars

\* a port of dpid D went down and a pair recorded against D was recomputed, while
\* the log holds records of another dpid
C4_Witness ==
    /\ lastEvent.type = "port_status"
    /\ decisions # <<>>
    /\ \E j \in 1..Len(flow_stats.flows) : flow_stats.flows[j].dpid # lastEvent.dpid
    /\ \E j \in 1..Len(flow_stats.flows) :
          /\ flow_stats.flows[j].dpid = lastEvent.dpid
          /\ flow_stats.flows[j].src_ip = decisions[1].src_ip

\* C5: every switch-connect, a repeated one included, registers the handle and
\* sends the switch a priority-0 table-miss flow-mod (to the controller, timeouts 0)
\* and a priority-5 ARP-flood flow-mod
C5_ConnectInstallsDefaults ==
    lastEvent.type = "switch_features" =>
        /\ lastEvent.dpid \in datapaths
        /\ \E i \in FlowMods(sent) :
              /\ sent[i].dpid = lastEvent.dpid /\ sent[i].priority = 0
              /\ sent[i].match = OFPMatch(0, "", "", 0)
              /\ sent[i].actions = <<OFPActionOutput(OFPP_CONTROLLER, OFPCML_NO_BUFFER)>>
              /\ sent[i].idle_timeout = 0 /\ sent[i].hard_timeout = 0
        /\ \E i \in FlowMods(sent) :
              /\ sent[i].dpid = lastEvent.dpid /\ sent[i].priority = 5
              /\ sent[i].match = OFPMatch(ETH_TYPE_ARP, "", "", 0)
              /\ sent[i].actions[1].port = OFPP_FLOOD

\* the /force_path request a step answers, if the step answers one
C10_Answers ==
    /\ lastEvent'.type = "force_path"
    /\ response'.status # 0
    /\ \/ events' = events + 1
       \/ force_path_req.pc = "waiting" /\ force_path_req'.pc = "idle"

\* neither the request, the agent nor the live graph gives a path from src to dst
C10_NoPath(req, src_switch, dst_switch) ==
    /\ req.path = <<>>
    /\ \A i \in 1..Len(decisions') : decisions'[i].agent_path = <<>>
    /\ dst_switch \notin C2_Ball(topology_graph, src_switch, Cardinality(Nodes(topology_graph)))

C10_Outcome(req, missing, empty, src_switch, dst_switch) ==
    /\ response'.status \in {200, 400, 503}
    /\ missing => response'.status = 400
    /\ ~missing /\ empty => response'.status = 503 /\ force_path_req.polls = max_wait
    /\ ~missing /\ ~empty /\ (src_switch = 0 \/ dst_switch = 0) => response'.status = 400
    /\ ~missing /\ ~empty /\ src_switch # 0 /\ dst_switch # 0 =>
          IF C10_NoPath(req, src_switch, dst_switch)
          THEN response'.status = 400
          ELSE /\ response'.status = 200
               /\ \A i \in 1..Len(sent') :
                     /\ sent'[i].type = "flow_mod"
                     /\ sent'[i].match.ipv4_src = req.src_ip
                     /\ sent'[i].match.ipv4_dst = req.dst_ip
    /\ response'.status # 200 =>
          /\ sent' = <<>>
          /\ flow_stats' = flow_stats
          /\ existing_flows' = existing_flows

C10_Step ==
    /\ force_path_req'.polls <= max_wait
    /\ IF C10_Answers
       THEN C10_Outcome(lastEvent'.req,
                        lastEvent'.req.src_ip = "" \/ lastEvent'.req.dst_ip = "",
                        Nodes(topology_graph) = {},
                        _get_switch_for_ip(descriptor, lastEvent'.req.src_ip),
                        _get_switch_for_ip(descriptor, lastEvent'.req.dst_ip))
       ELSE TRUE

C20_PathRules(u, src_ip, dst_ip) ==
    {i \in FlowMods(sent) :
        /\ sent[i].dpid = u
        /\ sent[i].priority = 10
        /\ sent[i].match.ipv4_src = src_ip
        /\ sent[i].match.ipv4_dst = dst_ip}

\* the hops (u, v) of a path that are links of the descriptor
C20_Hops(path) ==
    {h \in 1..(Len(path) - 1) :
        /\ SName(path[h]) \in DOMAIN DescriptorOf(descriptor).switches
        /\ SName(path[h + 1]) \in DOMAIN DescriptorOf(descriptor).switches[SName(path[h])].ports}

\* C20: for every hop (u, v) of a path the last handler installed, the rule sent to
\* switch u outputs on u's own port toward v, switches[u].ports[v] of the descriptor
C20_HopPortDirection ==
    descriptor # "absent" =>
        \A d \in 1..Len(decisions) :
            \A h \in C20_Hops(decisions[d].path) :
                \A i \in C20_PathRules(decisions[d].path[h], decisions[d].src_ip,
                                       decisions[d].dst_ip) :
                    sent[i].actions[1].port =
                        DescriptorOf(descriptor).switches[SName(decisions[d].path[h])]
                            .ports[SName(decisions[d].path[h + 1])]

\* the switch neighbours that switch D reaches through its own port p, by
\* switches[D].ports of the descriptor
C21_LocalNeighbours(D, p) ==
    IF descriptor = "absent" \/ SName(D) \notin DOMAIN DescriptorOf(descriptor).switches
    THEN {}
    ELSE {n[2] : n \in {m \in DOMAIN DescriptorOf(descriptor).switches[SName(D)].ports :
                          /\ m[1] = "s"
                          /\ DescriptorOf(descriptor).switches[SName(D)].ports[m] = p}}

C21_Step ==
    (lastEvent'.type = "port_status" /\ lastEvent'.reason \in {OFPPR_DELETE, OFPPR_MODIFY})
    => Edges(topology_graph) \ Edges(topology_graph')
         = {{lastEvent'.dpid, n} : n \in C21_LocalNeighbours(lastEvent'.dpid, lastEvent'.port_no)}
           \cap Edges(topology_graph)

\* C21: a delete/modify port-status event for (dpid D, port p) removes from the live
\* graph exactly the edge between D and the neighbour D's own port p leads to in the
\* descriptor, when that edge is present, and no edge of another port of D
C21_PortDownEdge == [][C21_Step]_vars

\* the edges a port event has removed: the graph is loaded whole at the first
\* switch-connect event, so a link of the descriptor that a loaded graph lacks
\* has been removed by a port-status event
C22_Removed ==
    IF Nodes(topology_graph) = {} THEN {}
    ELSE Edges(LoadTopology(EmptyGraph, DescriptorOf(descriptor))) \ Edges(topology_graph)

C22_Step == \A e \in C22_Removed : e \notin Edges(topology_graph')

\* C22: an edge that a port delete/modify event has removed from the live graph is
\* absent from the graph ever after, whatever event follows (a switch-connect event
\* in particular)
C22_RemovedStaysRemoved == [][C22_Step]_vars

\* the links a path crosses
C23_Links(path) == {{path[h], path[h + 1]} : h \in 1..(Len(path) - 1)}

\* a rule for src_ip -> dst_ip is in place on the hop's switch u, out of the port
\* the graph g gives for the hop (u, v)
C23_Covered(flows, g, u, v, src_ip, dst_ip) ==
    /\ HasEdge(g, u, v)
    /\ <<u, StrMatch(OFPMatch(ETH_TYPE_IP, src_ip, dst_ip, IPPROTO_TCP)),
         StrActions(<<OFPActionOutput(g.port[{u, v}], OFPCML_MAX)>>)>> \in flows

\* the selection d was made on a graph that connects its two switches
C23_Connected(d) ==
    /\ d.src_switch \in Nodes(d.graph)
    /\ d.dst_switch \in Nodes(d.graph)
    /\ Distance(d.graph, d.src_switch, d.dst_switch) >= 0

C23_Step ==
    lastEvent'.type = "port_status" /\ events' = events + 1 =>
        \A i \in 1..Len(decisions') :
            /\ C23_Links(decisions'[i].path)
                 \cap (Edges(topology_graph) \ Edges(decisions'[i].graph)) = {}
            /\ (C23_Connected(decisions'[i]) /\ Range(decisions'[i].path) \subseteq datapaths)
               => \A h \in 1..(Len(decisions'[i].path) - 1) :
                     C23_Covered(existing_flows', decisions'[i].graph,
                                 decisions'[i].path[h], decisions'[i].path[h + 1],
                                 decisions'[i].src_ip, decisions'[i].dst_ip)

\* C23: in the reroute that the removal of an edge triggers, the path chosen for an
\* affected flow, by the agent or by the fallback, crosses no removed edge in either
\* direction, and when the live graph still connects the flow's two switches (and
\* every switch of the path has a registered handle) a rule is in place for every
\* hop of the chosen path
C23_RerouteAvoidsFailedLink == [][C23_Step]_vars

\* the hops of the selection d that path installation sends a rule for
C24_Installable(d) ==
    {h \in 1..(Len(d.path) - 1) :
        d.path[h] \in datapaths' /\ HasEdge(d.graph, d.path[h], d.path[h + 1])}

\* a flow-mod of msgs with the key (u, match of the flow, output on port)
C24_Sends(msgs, u, src_ip, dst_ip, port) ==
    \E i \in FlowMods(msgs) :
        /\ msgs[i].dpid = u
        /\ msgs[i].match = OFPMatch(ETH_TYPE_IP, src_ip, dst_ip, IPPROTO_TCP)
        /\ msgs[i].actions = <<OFPActionOutput(port, OFPCML_MAX)>>

\* switch u holds no entry for the flow src_ip -> dst_ip
C24_Gone(u, src_ip, dst_ip) ==
    \A r \in flow_table :
        ~(r.dpid = u /\ r.match = OFPMatch(ETH_TYPE_IP, src_ip, dst_ip, IPPROTO_TCP))

C24_Step ==
    lastEvent'.type # "flow_expiry" =>
        /\ \A i \in FlowMods(sent') :
              sent'[i].priority = 10 =>
                  sent'[i].idle_timeout = 120 /\ sent'[i].hard_timeout = 300
        /\ \A k \in 1..Len(decisions') :
              \A h \in C24_Installable(decisions'[k]) :
                  C24_Gone(decisions'[k].path[h], decisions'[k].src_ip, decisions'[k].dst_ip)
                  => C24_Sends(sent', decisions'[k].path[h], decisions'[k].src_ip,
                               decisions'[k].dst_ip,
                               decisions'[k].graph.port[{decisions'[k].path[h],
                                                         decisions'[k].path[h + 1]}])

\* C24: the rules of a path installation carry idle timeout 120 and hard timeout
\* 300, and an install request for a hop whose rule the switch no longer holds (it
\* has expired, or was never there) sends the flow-mod, so that every key of the
\* dedup set stands for a rule the switch holds
C24_DedupVersusExpiry == [][C24_Step]_vars

\* the path installations of a step: those of the handler's selections and the one
\* of a /force_path request that names its path
C25_Installs ==
    {[path |-> decisions'[k].path, src_ip |-> decisions'[k].src_ip,
      dst_ip |-> decisions'[k].dst_ip, graph |-> decisions'[k].graph] :
        k \in {k \in 1..Len(decisions') : decisions'[k].path # <<>>}}
    \cup (IF /\ lastEvent'.type = "force_path"
             /\ lastEvent'.req.path # <<>>
             /\ response'.status = 200
          THEN {[path |-> lastEvent'.req.path, src_ip |-> lastEvent'.req.src_ip,
                 dst_ip |-> lastEvent'.req.dst_ip, graph |-> topology_graph']}
          ELSE {})

\* hop h of the installation p can be served: its switch has a handle and the
\* live graph has its edge
C25_Served(p, h) ==
    p.path[h] \in datapaths' /\ HasEdge(p.graph, p.path[h], p.path[h + 1])

C25_Key(p, h) ==
    <<p.path[h], StrMatch(OFPMatch(ETH_TYPE_IP, p.src_ip, p.dst_ip, IPPROTO_TCP)),
      StrActions(<<OFPActionOutput(p.graph.port[{p.path[h], p.path[h + 1]}], OFPCML_MAX)>>)>>

C25_Step ==
    lastEvent'.type \in {"packet_in", "port_status", "force_path"} =>
        /\ \A p \in C25_Installs :
              \A h \in 1..(Len(p.path) - 1) :
                  IF C25_Served(p, h)
                  THEN /\ C25_Key(p, h) \in existing_flows'
                       /\ C25_Key(p, h) \notin existing_flows
                          => C24_Sends(sent', p.path[h], p.src_ip, p.dst_ip,
                                       p.graph.port[{p.path[h], p.path[h + 1]}])
                  ELSE p.path[h] \notin datapaths'
                       => \A i \in FlowMods(sent') : sent'[i].dpid # p.path[h]
        /\ (lastEvent'.type = "force_path" /\ lastEvent'.req.path # <<>>)
           => response'.status # 500
        /\ (lastEvent'.type = "packet_in" /\ C25_Installs # {}) => PacketOuts(sent') # {}
        /\ IsPrefix(flow_stats.flows, flow_stats'.flows)
        /\ existing_flows \subseteq existing_flows'
        /\ \A r \in flow_table :
              \E r2 \in flow_table' :
                  r2.dpid = r.dpid /\ r2.match = r.match /\ r2.priority = r.priority

\* C25: path installation skips, without raising, a hop whose source switch has no
\* registered handle or whose edge is not in the live graph; every other hop of the
\* path gets its rule, and no rule or record of an earlier hop is taken back
C25_PartialInstall == [][C25_Step]_vars

\* /force_path installed a named path of which one hop was served, one had no edge
\* in the live graph and one had no registered switch
C25_Witness ==
    /\ lastEvent.type = "force_path"
    /\ lastEvent.req.path # <<>>
    /\ response.status = 200
    /\ \E h \in 1..(Len(lastEvent.req.path) - 1) :
          /\ lastEvent.req.path[h] \in datapaths
          /\ HasEdge(topology_graph, lastEvent.req.path[h], lastEvent.req.path[h + 1])
          /\ \E i \in FlowMods(sent) : sent[i].dpid = lastEvent.req.path[h]
    /\ \E h \in 1..(Len(lastEvent.req.path) - 1) :
          /\ lastEvent.req.path[h] \in datapaths
          /\ ~HasEdge(topology_graph, lastEvent.req.path[h], lastEvent.req.path[h + 1])
    /\ \E h \in 1..(Len(lastEvent.req.path) - 1) : lastEvent.req.path[h] \notin datapaths

\* the switch-switch links of the descriptor d, by their index in d.links
C26_SwitchLinks(d) ==
    {i \in 1..Len(d.links) : d.links[i].src[1] = "s" /\ d.links[i].dst[1] = "s"}

C26_Ends(d, i) == {d.switches[d.links[i].src].dpid, d.switches[d.links[i].dst].dpid}

\* g is the descriptor d's graph: one node per switch dpid, one edge per
\* switch-switch link with that link's port, and each node's neighbours once each
C26_Exact(g, d) ==
    /\ Nodes(g) = {d.switches[n].dpid : n \in DOMAIN d.switches}
    /\ Edges(g) = {C26_Ends(d, i) : i \in C26_SwitchLinks(d)}
    /\ Cardinality(Edges(g)) = Cardinality(C26_SwitchLinks(d))
    /\ \A i \in C26_SwitchLinks(d) : g.port[C26_Ends(d, i)] = d.links[i].port
    /\ \A n \in Nodes(g) :
          /\ Range(g.adj[n]) = {m \in Nodes(g) : {n, m} \in Edges(g)}
          /\ Len(g.adj[n]) = Cardinality(Range(g.adj[n]))

C26_Step ==
    (lastEvent'.type = "switch_features" /\ descriptor # "absent") =>
        /\ C26_Exact(topology_graph', DescriptorOf(descriptor))
        /\ C26_Exact(topology_graph, DescriptorOf(descriptor))
           => /\ Nodes(topology_graph') = Nodes(topology_graph)
              /\ Edges(topology_graph') = Edges(topology_graph)
              /\ topology_graph'.port = topology_graph.port

\* C26: with the descriptor in place, the live graph after a switch-connect event
\* has exactly one node per switch dpid of the descriptor and exactly one edge per
\* switch-switch link, carrying the link's port; a connect event on such a graph
\* leaves its nodes, edges and edge ports as they were
C26_RebuildIdempotent == [][C26_Step]_vars

\* three switches have connected one after the other and nothing else has happened
C26_Witness ==
    /\ lastEvent.type = "switch_features"
    /\ descriptor # "absent"
    /\ events = 3
    /\ Cardinality(datapaths) = 3
    /\ Cardinality(Edges(topology_graph)) >= 3

C27_Step ==
    (lastEvent'.type = "packet_in" /\ lastEvent'.frame.ethertype = ETH_TYPE_ARP) =>
        /\ mac_to_port' = mac_to_port
        /\ topology_graph' = topology_graph
        /\ flow_stats' = flow_stats
        /\ existing_flows' = existing_flows
        /\ flow_table' = flow_table
        /\ decisions' = <<>>
        /\ sent' = <<>>

\* C27: a packet-in that carries an ARP frame leaves the MAC table, the live graph,
\* the flow log and the dedup set as they were, asks the agent nothing (no path
\* selection is made) and sends neither a flow-mod nor a packet-out
C27_ArpNoEffect == [][C27_Step]_vars

\* an ARP frame came in on a switch that has learned another MAC but not the
\* frame's source, and nothing was sent
C27_Witness ==
    /\ lastEvent.type = "packet_in"
    /\ lastEvent.frame.ethertype = ETH_TYPE_ARP
    /\ lastEvent.dpid \in DOMAIN mac_to_port
    /\ lastEvent.frame.eth_src \notin DOMAIN mac_to_port[lastEvent.dpid]
    /\ mac_to_port[lastEvent.dpid] # <<>>
    /\ flow_stats.count > 0
    /\ sent = <<>>

\* the out-port the claim names: the port switch S has learned for the
\* destination MAC, else flood
C28_OutPort(table, S, eth_dst) ==
    IF eth_dst \in DOMAIN table[S] THEN table[S][eth_dst] ELSE OFPP_FLOOD

C28_Step ==
    (lastEvent'.type = "packet_in" /\ lastEvent'.frame.ethertype # ETH_TYPE_ARP) =>
        /\ lastEvent'.dpid \in DOMAIN mac_to_port'
        /\ lastEvent'.frame.eth_src \in DOMAIN mac_to_port'[lastEvent'.dpid]
        /\ mac_to_port'[lastEvent'.dpid][lastEvent'.frame.eth_src] = lastEvent'.port_no
        /\ \A i \in PacketOuts(sent') :
              sent'[i].actions
                = <<OFPActionOutput(C28_OutPort(mac_to_port', lastEvent'.dpid,
                                                lastEvent'.frame.eth_dst), OFPCML_MAX)>>
        /\ (decisions' # <<>> \/ FlowMods(sent') # {})
           => /\ C28_OutPort(mac_to_port', lastEvent'.dpid, lastEvent'.frame.eth_dst)
                   # OFPP_FLOOD
              /\ lastEvent'.frame.ethertype = ETH_TYPE_IP
              /\ _get_switch_for_ip(descriptor, lastEvent'.frame.src_ip) # 0
              /\ _get_switch_for_ip(descriptor, lastEvent'.frame.dst_ip) # 0

\* C28: after a packet-in that is not ARP on switch S, the table of S maps the
\* source MAC to the ingress port; a packet-out goes to the port S has learned for
\* the destination MAC, to flood if it has none; and a path is selected or a
\* flow-mod sent only when that port is not flood, the frame is IPv4 and both
\* addresses resolve to a switch
C28_LearnAndGate == [][C28_Step]_vars

\* an IPv4 packet-in for a learned destination: a path was selected, rules were
\* sent and the packet went out of the learned port
C28_Witness ==
    /\ lastEvent.type = "packet_in"
    /\ lastEvent.frame.ethertype = ETH_TYPE_IP
    /\ decisions # <<>>
    /\ FlowMods(sent) # {}
    /\ \E i \in PacketOuts(sent) :
          /\ sent[i].actions[1].port # OFPP_FLOOD
          /\ sent[i].actions[1].port = mac_to_port[lastEvent.dpid][lastEvent.frame.eth_dst]

\* the edges the step removes from the live graph
C35_RemovedEdges == Edges(topology_graph) \ Edges(topology_graph')

\* the calls of _reroute_affected_flows the handler makes for the event
C35_Reroutes(dpid, port_no, reason) ==
    {port_status_handler(dpid, port_no, reason, rl_agent, tb, recent_rewards).c.reroutes :
        rl_agent \in AgentBehaviours, tb \in TieBreaks}

C35_Step ==
    (lastEvent'.type = "port_status" /\ lastEvent'.reason \in {OFPPR_DELETE, OFPPR_MODIFY})
    => /\ Cardinality(C35_RemovedEdges) <= 1
       /\ \A n \in C35_Reroutes(lastEvent'.dpid, lastEvent'.port_no, lastEvent'.reason) : n <= 1

\* C35: one delete/modify port-status event removes at most one edge of the live
\* graph and calls _reroute_affected_flows at most once, whichever descriptor
\* (linear or grid) the graph was loaded from
C35_OneEdgePerEvent == [][C35_Step]_vars

\* the state vectors a handler starting now would compute, and those the last
\* handler computed for its path selections
C36_Vectors ==
    {_get_current_network_state(Running, topology_graph, rl_agent, recent_rewards) :
        rl_agent \in AgentBehaviours}
    \cup {decisions[i].network_state : i \in 1..Len(decisions)}

C36_Accounted ==
    /\ flow_stats.count = Len(flow_stats.flows)
    /\ Len(flow_stats.flows) = Cardinality(existing_flows)
    /\ \A v \in C36_Vectors : v[1] = v[2]

C36_Step ==
    /\ flow_stats'.count >= flow_stats.count
    /\ Len(flow_stats'.flows) >= Len(flow_stats.flows)
    /\ Cardinality(existing_flows') >= Cardinality(existing_flows)
    /\ IsPrefix(flow_stats.flows, flow_stats'.flows)
    /\ existing_flows \subseteq existing_flows'

\* C36: in every state of the controller the flow count, the number of tracked
\* flow records and the number of dedup keys are equal, none of the three ever
\* decreases, and the first two components of every state vector are equal
C36_FlowAccounting == [](C36_Accounted) /\ [][C36_Step]_vars

\* a path selection made when flows were already tracked
C36_Witness ==
    /\ flow_stats.count >= 2
    /\ \E i \in 1..Len(decisions) : decisions[i].network_state[1] >= 1
    /\ Cardinality(existing_flows) = flow_stats.count

(***************************************************************************)
(* Properties of the agent service, checked under SpecAgent.               *)
(***************************************************************************)
\* the candidate list of a request's pair, <<>> if the table has no such pair
C6_Candidates(data) ==
    IF data.src.kind = "int" /\ data.dst.kind = "int"
       /\ <<data.src.val[1], data.dst.val[1]>> \in DOMAIN possible_paths
    THEN possible_paths[<<data.src.val[1], data.dst.val[1]>>]
    ELSE <<>>

C6_IsStateList(x) == x.kind = "list" /\ Len(x.val) = state_size

\* C6: a /get_path request with a known pair, a non-empty candidate list and a
\* state list of length state_size is answered 200 with a 'path' of the candidate
\* list and an integer 'action_idx' that is the path's index in the list
C6_GetPathSuccess ==
    /\ agent_req.route = "get_path"
    /\ C6_Candidates(agent_req.data) # <<>>
    /\ C6_IsStateList(agent_req.data.state)
    => /\ agent_resp.status = 200
       /\ agent_resp.body.action_idx.kind = "int"
       /\ agent_resp.body.action_idx.val[1] \in 0..(Len(C6_Candidates(agent_req.data)) - 1)
       /\ C6_Candidates(agent_req.data)[agent_resp.body.action_idx.val[1] + 1]
             = agent_resp.body.path.val

C7_Step ==
    /\ agent_req'.route = "get_path"
    /\ \/ ~C6_IsStateList(agent_req'.data.state)
       \/ C6_Candidates(agent_req'.data) = <<>>
    => /\ agent_resp'.status = 400
       /\ UNCHANGED <<q_table, recent_rewards, total_steps>>

\* C7: a /get_path request whose state is not a list of length state_size, whose
\* pair is not in the possible-paths table or whose candidate list is empty is
\* answered 400 and leaves q_table, recent_rewards and total_steps as they were
C7_GetPathValidation == [][C7_Step]_vars

\* a request for a pair whose candidate list is empty, with a good state, got 400
C7_Witness ==
    /\ agent_req.route = "get_path"
    /\ agent_req.data.src = JInt(1) /\ agent_req.data.dst = JInt(2)
    /\ C6_IsStateList(agent_req.data.state)
    /\ agent_resp.status = 400

\* C8, for the path index 0: an /update request with all four fields, state and
\* next_state lists of length state_size, a number as reward and the action 0 is
\* answered {status: success}
C8_UpdateAccepted ==
    /\ agent_req.route = "update"
    /\ C6_IsStateList(agent_req.data.state)
    /\ C6_IsStateList(agent_req.data.next_state)
    /\ agent_req.data.reward.kind = "int"
    /\ agent_req.data.action = JInt(0)
    => /\ agent_resp.status = 200
       /\ recent_rewards # <<>>

\* n1/d1 and n2/d2 are one number: equal once each is reduced to lowest terms
C9_SameFraction(n1, d1, n2, d2) ==
    /\ d1 > 0 /\ d2 > 0
    /\ n1 \div GCD(Abs(n1), d1) = n2 \div GCD(Abs(n2), d2)
    /\ d1 \div GCD(Abs(n1), d1) = d2 \div GCD(Abs(n2), d2)

\* x is (1 - lr)*v + lr*(r + gamma*m), the right-hand side brought to one fraction
C9_IsBlend(x, lr, gamma, v, r, m) ==
    C9_SameFraction(x[1], x[2],
                    (lr[2] - lr[1]) * v[1] * gamma[2] * m[2]
                        + lr[1] * v[2] * (r * gamma[2] * m[2] + gamma[1] * m[1]),
                    lr[2] * v[2] * gamma[2] * m[2])

C9_Updated(a, v, r, m) ==
    /\ DOMAIN q_table' = DOMAIN q_table \cup {a}
    /\ \A i \in 1..state_size :
          C9_IsBlend(q_table'[a][i], learning_rate, discount_factor, v[i], r, m)
    /\ \A k \in DOMAIN q_table \ {a} : q_table'[k] = q_table[k]

C9_Step ==
    agent_req'.route = "update" /\ total_steps' = total_steps + 1 =>
        C9_Updated(StrOf(agent_req'.data.action),
                   IF StrOf(agent_req'.data.action) \in DOMAIN q_table
                   THEN q_table[StrOf(agent_req'.data.action)]
                   ELSE [i \in 1..state_size |-> <<0, 1>>],
                   agent_req'.data.reward.val[1],
                   model[agent_req'.data.next_state.val])

\* C9: after one update_q_table call for action a with reward r, v the entry of a
\* before the call (zero if absent) and m the estimate of the next state, the entry
\* of a is (1 - learning_rate)*v + learning_rate*(r + discount_factor*m) in every
\* component, and no other entry has changed
C9_ValueUpdate == [][C9_Step]_vars

\* two updates with reward 1 have gone to one action: the second blended a value
\* that was not zero
C9_Witness ==
    /\ agent_req.route = "update"
    /\ total_steps = 2
    /\ recent_rewards = <<1, 1>>
    /\ Cardinality({k \in DOMAIN q_table : q_table[k] # Zeros}) = 1
    /\ q_table[StrOf(agent_req.data.action)] # Zeros

\* the learner as QLearningAgent.__init__ leaves it
C29_Initial ==
    [q_table |-> initialize_q_table, recent_rewards |-> <<>>, total_steps |-> 0,
     saved_models |-> {}, exc |-> "none"]

\* the learner after the request d1 and then the request d2, one after the other
C29_Sequential(d1, d2) ==
    update(update(C29_Initial, learning_rate, discount_factor, save_interval, model, d1, TRUE).a,
           learning_rate, discount_factor, save_interval, model, d2, TRUE).a

C29_SameLearner(a) ==
    /\ q_table = a.q_table
    /\ total_steps = a.total_steps
    /\ recent_rewards = a.recent_rewards

\* C29: two /update requests served at the same time, both answered with success,
\* leave the learner as the two requests served one after the other, in one order
\* or the other, would: both steps counted, both rewards appended, both blends
\* applied
C29_ConcurrentUpdatesAtomic ==
    (\A t \in Threads : workers[t].pc = "done" /\ workers[t].response.status = 200) =>
        \/ C29_SameLearner(C29_Sequential(workers[1].data, workers[2].data))
        \/ C29_SameLearner(C29_Sequential(workers[2].data, workers[1].data))

\* the known pairs that have a candidate
C30_Pairs == {pk \in DOMAIN possible_paths : possible_paths[pk] # <<>>}

\* r, the result of get_action on the table q for the pair pk, is the first candidate
C30_First(r, q, pk) ==
    /\ r.found
    /\ r.action_idx.val = <<0>>
    /\ r.path = possible_paths[pk][1]
    /\ r.q_table = q

C30_Step ==
    agent_req'.route = "get_path" =>
        /\ \A pk \in C30_Pairs, state \in StateVectors :
              C30_First(get_action(q_table, model, state, pk[1], pk[2]), q_table, pk)
        /\ q_table' = q_table

\* C30: whatever the learner has learned, get_action returns index 0 and the first
\* candidate for every state vector and every known pair that has a candidate, and
\* neither it nor the /get_path request around it adds, removes or changes a
\* q_table entry
C30_FirstCandidate == [][C30_Step]_vars

\* a path was requested for the pair 1 -> 4 after updates had put the first
\* candidate's table entry below the second's
C30_Witness ==
    /\ agent_req.route = "get_path"
    /\ agent_req.data.src = JInt(1) /\ agent_req.data.dst = JInt(4)
    /\ ValidState(agent_req.data.state)
    /\ total_steps > 0
    /\ RLess(q_table[<<1, 2, 4>>][1], q_table[<<1, 3, 4>>][1])

C34_Step ==
    agent_req'.route = "update" /\ agent_resp'.status \in {400, 500} =>
        UNCHANGED <<q_table, recent_rewards, total_steps>>

\* C34: an /update request answered 400 or 500 leaves q_table, recent_rewards and
\* total_steps as they were before it
C34_FailedUpdateUnchanged == [][C34_Step]_vars

(***************************************************************************)
(* Properties of the provisioner, checked under SpecProv.                  *)
(***************************************************************************)
C11_IsSwitch(name) == name[1] = "s"

C11_SwitchLinks(d) == {i \in 1..Len(d.links) : C11_IsSwitch(d.links[i].src)}

C11_HostLinks(d) == {i \in 1..Len(d.links) : ~C11_IsSwitch(d.links[i].src)}

\* within every switch, no two neighbours share a port number
C11_PortsInjective(d) ==
    \A sw \in DOMAIN d.switches :
        \A x, y \in DOMAIN d.switches[sw].ports :
            d.switches[sw].ports[x] = d.switches[sw].ports[y] => x = y

\* every switch-switch link is in its source's ports under the link's port, and its
\* destination has an entry for the source
C11_LinksInPorts(d) ==
    \A i \in C11_SwitchLinks(d) :
        /\ d.links[i].src \in DOMAIN d.switches
        /\ d.links[i].dst \in DOMAIN d.switches
        /\ d.links[i].dst \in DOMAIN d.switches[d.links[i].src].ports
        /\ d.switches[d.links[i].src].ports[d.links[i].dst] = d.links[i].port
        /\ d.links[i].src \in DOMAIN d.switches[d.links[i].dst].ports

\* C11: the descriptor a run with --topo linear has written has exactly 4 switches,
\* 4 hosts and 7 links, 4 of them host-switch and 3 switch-switch; no switch gives
\* two neighbours one port number; every switch-switch link {src, dst, port} has
\* switches[src].ports[dst] = port, and dst has an entry for src
C11_LinearDescriptor ==
    topo_type = "linear" /\ topology_info # <<>> =>
        /\ Cardinality(DOMAIN topology_info[1].switches) = 4
        /\ Cardinality(DOMAIN topology_info[1].hosts) = 4
        /\ Len(topology_info[1].links) = 7
        /\ Cardinality(C11_HostLinks(topology_info[1])) = 4
        /\ Cardinality(C11_SwitchLinks(topology_info[1])) = 3
        /\ C11_PortsInjective(topology_info[1])
        /\ C11_LinksInPorts(topology_info[1])

\* a linear run has built its topology and written the file
C11_Witness ==
    /\ topo_type = "linear"
    /\ prov_pc = "built"
    /\ topology_info # <<>>
    /\ Len(topology_info[1].links) > 0

C12_Corners(n) == {SName(1), SName(n), SName(n * (n - 1) + 1), SName(n * n)}

\* the switches whose ports mapping holds the host
C12_SwitchesOf(d, host) == {sw \in DOMAIN d.switches : host \in DOMAIN d.switches[sw].ports}

\* C12: the descriptor a run with --topo grid --grid-size N (N >= 2) has written has
\* exactly N*N switches, named s1..s(N*N) with dpids 1..N*N, exactly 4 hosts, each
\* connected to one of the corners s1, sN, s(N*(N-1)+1), s(N*N) and in the ports
\* of that switch only, and exactly 4 + 2*N*(N-1) links; no other switch has a
\* host in its ports
C12_GridScale ==
    topo_type = "grid" /\ grid_size >= 2 /\ topology_info # <<>> =>
        /\ DOMAIN topology_info[1].switches = {SName(i) : i \in 1..(grid_size * grid_size)}
        /\ \A i \in 1..(grid_size * grid_size) : topology_info[1].switches[SName(i)].dpid = i
        /\ DOMAIN topology_info[1].hosts = {HName(h) : h \in 1..4}
        /\ \A h \in 1..4 :
            /\ topology_info[1].hosts[HName(h)].connected_to \in C12_Corners(grid_size)
            /\ C12_SwitchesOf(topology_info[1], HName(h))
                   = {topology_info[1].hosts[HName(h)].connected_to}
        /\ Len(topology_info[1].links) = 4 + 2 * grid_size * (grid_size - 1)
        /\ \A sw \in DOMAIN topology_info[1].switches \ C12_Corners(grid_size) :
              \A x \in DOMAIN topology_info[1].switches[sw].ports : C11_IsSwitch(x)

\* a grid run of a size that has switches other than the corners has written the file
C12_Witness ==
    /\ topo_type = "grid"
    /\ grid_size >= 3
    /\ prov_pc = "built"
    /\ topology_info # <<>>
    /\ Cardinality(DOMAIN topology_info[1].switches) > 4

\* the readiness probe has succeeded and the seeding loops have been left
C13_Seeded == InSeq("ready", run_log) /\ prov_pc \in {"ping", "cli", "stop", "done"}

C13_OrderedPairs == {<<IpOf(i), IpOf(j)>> : i, j \in {1, 2, 3, 4}} \ {<<IpOf(i), IpOf(i)>> : i \in 1..4}

\* C13 as stated: once the readiness probe has succeeded, the seeding has issued
\* exactly 12 force-path requests in all
C13_ExactlyTwelve == C13_Seeded => force_reqs = 12

\* C13: once the readiness probe has succeeded, the seeding has requested exactly
\* the 12 ordered pairs of distinct hosts, with one request per pair and one more
\* for every failed attempt that was retried: 12 in all when no request failed,
\* and never more than max_retries per pair
C13_SeedingCount ==
    C13_Seeded =>
        /\ seeded = C13_OrderedPairs
        /\ Cardinality(seeded) = 12
        /\ force_reqs >= 12
        /\ force_reqs <= 12 + failed_reqs
        /\ force_reqs <= 12 * max_retries
        /\ (failed_reqs = 0 => force_reqs = 12)

\* the seeding has ended with every request answered at its first attempt
C13_Witness ==
    /\ C13_Seeded
    /\ prov_pc = "ping"
    /\ failed_reqs = 0
    /\ force_reqs = 12

\* C14: a run whose controller check has failed has returned: it has not started
\* the network, installed tools, probed or seeded the controller, tested
\* connectivity or opened the interactive session, and has issued no force-path
\* request; and in every run a network start comes after a successful check
C14_AbortOnUnreachable ==
    /\ InSeq("check_failed", run_log) =>
        /\ prov_pc = "returned"
        /\ run_log[Len(run_log)] = "check_failed"
        /\ \A k \in 1..Len(run_log) :
              run_log[k] \notin {"net_start", "install_tools", "ready", "not_ready", "seeded",
                                 "pingall", "cli", "net_stop"}
        /\ force_reqs = 0
        /\ seeded = {}
    /\ \A k \in 1..Len(run_log) :
          run_log[k] = "net_start" => \E j \in 1..(k - 1) : run_log[j] = "check_ok"

\* a run has found the controller unreachable
C14_Witness ==
    /\ prov_pc = "returned"
    /\ topo_type \in {"linear", "grid"}
    /\ topology_info # <<>>
    /\ run_log = <<"build", "check_failed">>

\* one force-path request of the seeding: it is for an ordered pair of distinct
\* hosts and is one of the attempts 0..max_retries - 1 for it; after a success the
\* seeding is at the first attempt of the next pair, after a failure at the next
\* attempt for the same pair, and after the last failed attempt at the next pair
C31_Step ==
    force_reqs' # force_reqs =>
        /\ prov_pc = "seed"
        /\ force_reqs' = force_reqs + 1
        /\ seed.i \in NetHosts /\ seed.j \in NetHosts /\ seed.i # seed.j
        /\ seed.attempt \in 0..(max_retries - 1)
        /\ <<IpOf(seed.i), IpOf(seed.j)>> \in seeded'
        /\ (seed.attempt = 0 => <<IpOf(seed.i), IpOf(seed.j)>> \notin seeded)
        /\ IF failed_reqs' = failed_reqs \/ seed.attempt = max_retries - 1
           THEN /\ seed'.attempt = 0
                /\ <<seed'.i, seed'.j>> = NextPair(seed.i, seed.j)
                /\ <<seed'.i, seed'.j>> # <<seed.i, seed.j>>
           ELSE seed' = [seed EXCEPT !.attempt = seed.attempt + 1]

\* the readiness loop has been left without a successful probe
C31_NeverReady == InSeq("not_ready", run_log)

\* C31: a seeding whose readiness probe never succeeded within its window issues
\* no force-path request; otherwise every ordered pair of distinct hosts gets at
\* least one and at most max_retries requests, the requests for a pair stop at its
\* first success and the seeding moves to the next pair after max_retries
\* failures; and trigger_initial_flows, once entered, is left
C31_SeedingRetryBound ==
    /\ [][C31_Step]_vars
    /\ [](C31_NeverReady => force_reqs = 0 /\ seeded = {})
    /\ [](C13_Seeded => seeded = C13_OrderedPairs /\ force_reqs <= max_retries * 12)
    /\ (prov_pc = "probe") ~> (prov_pc = "ping")

\* the seeding has ended after a pair took all its attempts and another succeeded
\* at its first
C31_Witness ==
    /\ C13_Seeded
    /\ prov_pc = "ping"
    /\ failed_reqs = max_retries
    /\ force_reqs = max_retries + 11

\* the descriptor d records port p for the end at switch x of its link to y
C37_Records(d, x, y, p) ==
    /\ x \in DOMAIN d.switches
    /\ y \in DOMAIN d.switches[x].ports
    /\ d.switches[x].ports[y] = p

\* every link of the network is in the descriptor with the port numbers it was
\* created with, at each end that is a switch
C37_Matches(d, links) ==
    \A k \in 1..Len(links) :
        /\ C11_IsSwitch(links[k].node1) =>
                C37_Records(d, links[k].node1, links[k].node2, links[k].port1)
        /\ C11_IsSwitch(links[k].node2) =>
                C37_Records(d, links[k].node2, links[k].node1, links[k].port2)

\* C37: the descriptor a run has written gives, for every link created in the
\* virtual network (linear, and grid of every size up to MaxGridSize), the port
\* number of each switch end of the link as it was given at link creation, and
\* within each switch no two neighbours share a port number
C37_DescriptorMatchesNetwork ==
    topology_info # <<>> =>
        /\ C37_Matches(topology_info[1], TopoLinks(topo_type, grid_size))
        /\ C11_PortsInjective(topology_info[1])

\* a grid of the largest size has been built and its descriptor written
C37_Witness ==
    /\ topo_type = "grid"
    /\ grid_size = MaxGridSize
    /\ topology_info # <<>>
    /\ Len(TopoLinks(topo_type, grid_size)) = 4 + 2 * grid_size * (grid_size - 1)
    /\ prov_pc = "started"

(***************************************************************************)
(* Properties of the agent's startup, checked under SpecStart.             *)
(***************************************************************************)
\* the configuration file is missing, lacks a required key, or the paths file is missing
C15_InitFails ==
    \/ config_file = <<>>
    \/ \E k \in required_keys : k \notin DOMAIN config_file[1]
    \/ ~paths_file

\* C15: a process whose configuration file is missing or lacks one of state_size,
\* learning_rate, discount_factor, save_interval, or whose possible-paths file is
\* missing, never has an agent, never listens and never serves a request
C15_FatalStartup ==
    C15_InitFails =>
        /\ agent = "None"
        /\ server \in {"down", "exited"}
        /\ agent_req.route = "none"
        /\ agent_resp = NoResponse
        /\ q_table = <<>>

\* __main__ has run on a configuration that lacks a key only, and the process has ended
C15_Witness ==
    /\ config_file # <<>>
    /\ paths_file
    /\ "save_interval" \notin DOMAIN config_file[1]
    /\ server = "exited"
    /\ agent = "None"

(***************************************************************************)
(* Properties of the monitor, checked under SpecMonitor and SpecState.     *)
(***************************************************************************)
C16_PlotOutcomes == {"plot", "plot_error", "no_file", "no_matplotlib"}

\* C16: when the loop of main() has been interrupted and the process has exited, the
\* pollers were stopped, then a performance report was written, then the plots were
\* generated
C16_FinalReport ==
    mon_pc = "exited" =>
        \E i, j, k \in 1..Len(mon_log) :
            /\ i < j /\ j < k
            /\ mon_log[i] = "stop"
            /\ mon_log[j] = "report"
            /\ mon_log[k] \in C16_PlotOutcomes

C17_Series == {"latency_ms", "throughput_bps", "packet_loss_rate", "jitter_ms"}

\* C17: every statistics record of the report in traffic_results.json has the five fields
\* avg, min, max, std and count, and one whose count is 0 has all of them 0
C17_FiveFields ==
    traffic_results # <<>> =>
        \A series \in C17_Series :
            /\ DOMAIN traffic_results[1].network_performance[series]
                    = {"avg", "min", "max", "std", "count"}
            /\ traffic_results[1].network_performance[series].count = 0 =>
                    \A f \in {"avg", "min", "max", "std"} :
                        traffic_results[1].network_performance[series][f] = RInt(0)

C18_InUnit(x) == RLeq(RInt(0), x) /\ RLeq(x, RInt(1))

\* C18: the state of a summary has its four components in [0,1], its fourth equal to
\* its second, its third 0 when the latest sample has no active switch, and is
\* (0,0,0,0) when there is no sample
C18_StateBounds ==
    summary # <<>> =>
        /\ Len(summary[1].latest_network_state) = 4
        /\ \A c \in 1..4 : C18_InUnit(summary[1].latest_network_state[c])
        /\ summary[1].latest_network_state[4] = summary[1].latest_network_state[2]
        /\ network_metrics # <<>> =>
                (network_metrics[Len(network_metrics)].num_active_switches = 0
                    => summary[1].latest_network_state[3] = RInt(0))
        /\ network_metrics = <<>> =>
                summary[1].latest_network_state = <<RInt(0), RInt(0), RInt(0), RInt(0)>>

\* a summary of a sample above all three scales: each component is held at 1
C18_Witness ==
    /\ summary # <<>>
    /\ network_metrics # <<>>
    /\ RLess(RInt(max_throughput), network_metrics[1].avg_throughput)
    /\ RLess(RInt(max_packet_loss), network_metrics[1].avg_packet_loss)
    /\ network_metrics[1].num_active_switches > max_switches
    /\ summary[1].latest_network_state = <<RInt(1), RInt(1), RInt(1), RInt(1)>>

\* C19: a bridge whose dump-ports text is the line "port  1: rx pkts=123, bytes=456,
\* drop=0, errs=0, frame=0, over=0, crc=0, tx pkts=10, bytes=20, drop=1" has an entry for
\* port 1 with rx_pkts=123, rx_bytes=456, rx_drop=0, tx_pkts=10, tx_bytes=20, tx_drop=1
C19_PortLineParsed ==
    \A b \in DOMAIN dumped :
        dumped[b] = port_line =>
            /\ 1 \in DOMAIN switch_stats[b].ports
            /\ Get(switch_stats[b].ports[1], s_rx_pkts, -1) = 123
            /\ Get(switch_stats[b].ports[1], s_rx_bytes, -1) = 456
            /\ Get(switch_stats[b].ports[1], s_rx_drop, -1) = 0
            /\ Get(switch_stats[b].ports[1], s_tx_pkts, -1) = 10
            /\ Get(switch_stats[b].ports[1], s_tx_bytes, -1) = 20
            /\ Get(switch_stats[b].ports[1], s_tx_drop, -1) = 1

(***************************************************************************)
(* Properties of a monitor driven by its caller, checked under             *)
(* SpecLifecycle.                                                          *)
(***************************************************************************)
\* the threads that have not left their loop
C32_Active == {k \in 1..Len(pollers) : pollers[k].at # "done"}

\* one step seen from thread k: it enters an iteration only on reading the flag
\* set, leaves its loop only on reading it cleared, goes from an iteration (one
\* that raised included) back to the check, and once out stays out
C32_Thread(k) ==
    /\ (pollers[k].at = "check" /\ pollers'[k].at = "body") => running
    /\ (pollers[k].at = "check" /\ pollers'[k].at # "check" /\ ~running) => pollers'[k].at = "done"
    /\ (pollers[k].at # "done" /\ pollers'[k].at = "done") => (pollers[k].at = "check" /\ ~running)
    /\ pollers[k].at = "body" => pollers'[k].at \in {"body", "check"}
    /\ pollers[k].at = "done" => pollers'[k].at = "done"

C32_Step ==
    /\ \A k \in 1..Len(pollers) : C32_Thread(k)
    /\ C32_Active = {} =>
            UNCHANGED <<switch_stats, bridge_flows, network_metrics, performance_metrics,
                        traffic_results>>

\* C32: a loop begins an iteration only after reading running = true and ends only
\* by reading running = false at its check, which an iteration that raised reaches
\* like any other; with no thread left the shared series do not change; and if
\* from some point on running stays false, then from some point on no thread is
\* in its loop
C32_Cancellation ==
    /\ [][C32_Step]_vars
    /\ (<>[](~running) => <>[](C32_Active = {}))

\* the five threads of a monitor that was started once and stopped have all left
\* their loops, after the collector had stored a sample
C32_Witness ==
    /\ ~running
    /\ Len(pollers) = 5
    /\ C32_Active = {}
    /\ network_metrics # <<>>

\* the threads in their loops that run the target
C33_Live(target) == {k \in 1..Len(pollers) : pollers[k].target = target /\ pollers[k].at # "done"}

\* C33: of each of the five loops at most one thread is in its loop
C33_SinglePollerInstance ==
    \A i \in 1..5 : Cardinality(C33_Live(Targets[i])) <= 1

(***************************************************************************)
(* Properties of the agent among the repository's programs, checked under  *)
(* SpecClosed.                                                             *)
(***************************************************************************)
\* C38: with the controller, the monitor and the provisioner as the agent's only
\* clients no /update request is served: total_steps is 0, recent_rewards is
\* empty, every q_table entry is the zero vector, and the fourth component of
\* every state vector of the controller is 0
C38_NoLearning ==
    /\ agent_req.route # "update"
    /\ total_steps = 0
    /\ recent_rewards = <<>>
    /\ \A k \in DOMAIN q_table : q_table[k] = Zeros
    /\ \A v \in C36_Vectors : v[4] = 0

\* the controller has selected a path with a state vector computed after flows
\* were installed, and the agent has answered a /stats request
C38_Witness ==
    /\ \E i \in 1..Len(decisions) : decisions[i].network_state[1] >= 1
    /\ agent_req.route = "stats"
    /\ agent_resp.status = 200

=============================================================================
